---- MODULE Spec2Model ----
(***************************************************************************)
(* ExtractGrid: conversion of French bank statements (PDF) to a workbook.  *)
(*                                                                         *)
(* The module models                                                       *)
(*   - the two HTTP routes (detect, convert) together with the per-page    *)
(*     PDF text extraction they and the parsers run            (Spec),     *)
(*   - the Qonto text parser, character by character      (SpecQonto),     *)
(*   - the Societe Generale geometry parser               (SpecSgPdf).     *)
(*                                                                         *)
(* Strings are sequences of one-character strings, so that the substring   *)
(* and regular-expression operations of the source are computed and not    *)
(* assumed.  Indexes follow JavaScript: 0-based, end-exclusive.            *)
(***************************************************************************)
EXTENDS Integers, Sequences, FiniteSets, TLC

(***************************************************************************)
(* Bounds of the model.                                                    *)
(***************************************************************************)
\* pages of a PDF document
MaxPages == 2
\* transactions a parser returns to the convert route
MaxTx == 2
\* lines of a Qonto statement
MaxQontoLines == 2
\* positioned lines of a Societe Generale statement
MaxSgLines == 3

(***************************************************************************)
(* Characters and JavaScript string primitives.                            *)
(***************************************************************************)
\* U+00A0, the non-breaking space
NBSP == "nbsp"

Digits == {"0", "1", "2", "3", "4", "5", "6", "7", "8", "9"}

LowerLetters == <<"a", "b", "c", "d", "e", "f", "g", "h", "i", "j", "k", "l", "m", "n", "o", "p", "q", "r", "s", "t", "u", "v", "w", "x", "y", "z">>

UpperLetters == <<"A", "B", "C", "D", "E", "F", "G", "H", "I", "J", "K", "L", "M", "N", "O", "P", "Q", "R", "S", "T", "U", "V", "W", "X", "Y", "Z">>

\* the characters the regular-expression class \s matches
WhiteSpace == {" ", "\t", "\n", "\r", "\f", NBSP}

IsDigit(c) == c \in Digits

IsSpace(c) == c \in WhiteSpace

\* the letters as sets, and the capital of each small letter
LowerSet == {LowerLetters[i] : i \in 1..26}

UpperSet == {UpperLetters[i] : i \in 1..26}

UpperOf == [c \in LowerSet |-> UpperLetters[CHOOSE i \in 1..26 : LowerLetters[i] = c]]

IsLower(c) == c \in LowerSet

IsUpper(c) == c \in UpperSet

\* the characters the regular-expression class \w matches
IsWordChar(c) == IsDigit(c) \/ IsLower(c) \/ IsUpper(c) \/ c = "_"

ToUpperChar(c) == IF IsLower(c) THEN UpperOf[c] ELSE c

\* String.prototype.toUpperCase
ToUpperCase(s) == [i \in 1..Len(s) |-> ToUpperChar(s[i])]

Min(a, b) == IF a < b THEN a ELSE b

Max(a, b) == IF a > b THEN a ELSE b

\* String.prototype.slice(from, to) with 0 <= from
Slice(s, from, to) == SubSeq(s, Min(from, Len(s)) + 1, Min(to, Len(s)))

\* String.prototype.slice(from)
SliceFrom(s, from) == SubSeq(s, Min(from, Len(s)) + 1, Len(s))

\* does needle occur in s at 0-based position i
OccursAt(s, needle, i) == /\ i >= 0
                          /\ i + Len(needle) <= Len(s)
                          /\ needle = <<>> \/ s[i + 1] = needle[1]
                          /\ SubSeq(s, i + 1, i + Len(needle)) = needle

\* String.prototype.indexOf: -1 when absent
IndexOf(s, needle) == IF \E i \in 0..Len(s) : OccursAt(s, needle, i) THEN CHOOSE i \in 0..Len(s) : OccursAt(s, needle, i) /\ \A j \in 0..(i - 1) : ~OccursAt(s, needle, j) ELSE -1

\* String.prototype.lastIndexOf: -1 when absent
LastIndexOf(s, needle) == IF \E i \in 0..Len(s) : OccursAt(s, needle, i) THEN CHOOSE i \in 0..Len(s) : OccursAt(s, needle, i) /\ \A j \in (i + 1)..Len(s) : ~OccursAt(s, needle, j) ELSE -1

\* String.prototype.includes
Includes(s, needle) == IndexOf(s, needle) # -1

\* Array.prototype.join("") over a sequence of strings
RECURSIVE Concat(_)
Concat(parts) == IF parts = <<>> THEN <<>> ELSE Head(parts) \o Concat(Tail(parts))

\* the positions of s, and the characters of s at some of them, in their order
Indexes(s) == [i \in 1..Len(s) |-> i]

AtIndexes(s, indexes) == [k \in 1..Len(indexes) |-> s[indexes[k]]]

\* Array.prototype.join(sep) over a sequence of strings
RECURSIVE Join(_, _)
Join(parts, sep) == IF parts = <<>> THEN <<>> ELSE IF Len(parts) = 1 THEN Head(parts) ELSE Head(parts) \o sep \o Join(Tail(parts), sep)

(***************************************************************************)
(* Numbers and dates.                                                      *)
(***************************************************************************)
DigitChars == <<"0", "1", "2", "3", "4", "5", "6", "7", "8", "9">>

DigitValue(c) == (CHOOSE i \in 1..10 : DigitChars[i] = c) - 1

\* Number(digits) for a string of decimal digits
RECURSIVE ToNat(_)
ToNat(ds) == IF ds = <<>> THEN 0 ELSE ToNat(SubSeq(ds, 1, Len(ds) - 1)) * 10 + DigitValue(ds[Len(ds)])

\* the length of the longest run of characters of class that starts at 0-based position i
RECURSIVE RunLength(_, _, _)
RunLength(s, i, class) == IF i < Len(s) /\ s[i + 1] \in class THEN 1 + RunLength(s, i + 1, class) ELSE 0

\* a finite number is m / 10^k, kept in lowest terms so that equal numbers are equal records
NaN == [kind |-> "NaN", m |-> 0, k |-> 0]

PlusInfinity == [kind |-> "Infinity", m |-> 1, k |-> 0]

MinusInfinity == [kind |-> "Infinity", m |-> -1, k |-> 0]

RECURSIVE Decimal(_, _)
Decimal(m, k) == IF k > 0 /\ m % 10 = 0 THEN Decimal(m \div 10, k - 1) ELSE IF k < 0 THEN Decimal(m * 10, k + 1) ELSE [kind |-> "finite", m |-> m, k |-> k]

\* amount * sign, for sign in {1, -1}
Times(value, sign) == [value EXCEPT !.m = value.m * sign]

\* 'Infinity'
S_INFINITY == <<"I", "n", "f", "i", "n", "i", "t", "y">>

\* the steps of Number.parseFloat: a sign, then the longest prefix that is a decimal
\* literal (digits, fraction, exponent) or Infinity; NaN when there is none
SignLength(s, i) == IF i < Len(s) /\ s[i + 1] \in {"+", "-"} THEN 1 ELSE 0

SignAt(s, i) == IF i < Len(s) /\ s[i + 1] = "-" THEN -1 ELSE 1

DotLength(s, i) == IF i < Len(s) /\ s[i + 1] = "." THEN 1 ELSE 0

\* the value of the exponent whose sign and digits start at position e, 0 without digits
ExponentValue(s, e, eSignLen) == IF RunLength(s, e + eSignLen, Digits) > 0 THEN SignAt(s, e) * ToNat(Slice(s, e + eSignLen, e + eSignLen + RunLength(s, e + eSignLen, Digits))) ELSE 0

\* the exponent part read at position q, 0 when there is none
ExponentPart(s, q) == IF q < Len(s) /\ s[q + 1] \in {"e", "E"} THEN ExponentValue(s, q + 1, SignLength(s, q + 1)) ELSE 0

ParseFloatDigits(s, p, sign, intLen, dotLen, fracLen) == IF intLen = 0 /\ fracLen = 0 THEN NaN
                                                         ELSE Decimal(sign * ToNat(Slice(s, p, p + intLen) \o Slice(s, p + intLen + 1, p + intLen + 1 + fracLen)), fracLen - ExponentPart(s, p + intLen + dotLen + fracLen))

ParseFloatFraction(s, p, sign, intLen, dotLen) == ParseFloatDigits(s, p, sign, intLen, dotLen, IF dotLen = 1 THEN RunLength(s, p + intLen + 1, Digits) ELSE 0)

ParseFloatFrom(s, p, sign) == IF OccursAt(s, S_INFINITY, p) THEN (IF sign = 1 THEN PlusInfinity ELSE MinusInfinity)
                              ELSE ParseFloatFraction(s, p, sign, RunLength(s, p, Digits), DotLength(s, p + RunLength(s, p, Digits)))

ParseFloatSigned(s, ws) == ParseFloatFrom(s, ws + SignLength(s, ws), SignAt(s, ws))

\* Number.parseFloat: the longest prefix that is a decimal literal, after leading white space
ParseFloat(s) == ParseFloatSigned(s, RunLength(s, 0, WhiteSpace))

IsLeapYear(y) == (y % 4 = 0 /\ y % 100 # 0) \/ y % 400 = 0

DaysInMonth(y, m) == IF m = 2 THEN (IF IsLeapYear(y) THEN 29 ELSE 28) ELSE IF m \in {4, 6, 9, 11} THEN 30 ELSE 31

\* the calendar date d days into month m (1..12) of year y, for any integer d
RECURSIVE NormalizeDay(_, _, _)
NormalizeDay(y, m, d) == IF d < 1 THEN (IF m = 1 THEN NormalizeDay(y - 1, 12, d + 31) ELSE NormalizeDay(y, m - 1, d + DaysInMonth(y, m - 1)))
                         ELSE IF d > DaysInMonth(y, m) THEN (IF m = 12 THEN NormalizeDay(y + 1, 1, d - 31) ELSE NormalizeDay(y, m + 1, d - DaysInMonth(y, m)))
                         ELSE [year |-> y, month |-> m, day |-> d]

\* new Date(Date.UTC(year, monthIndex, day)): years 0..99 mean 1900..1999, and month
\* and day overflow into the neighbouring months and years
DateUTC(year, monthIndex, day) == LET fullYear == IF year >= 0 /\ year <= 99 THEN 1900 + year ELSE year
                                  IN NormalizeDay(fullYear + (monthIndex \div 12), (monthIndex % 12) + 1, day)

(***************************************************************************)
(* Lexical utilities (utils.ts).                                           *)
(***************************************************************************)
\* s.replace(/\u00A0/g, " ")
ReplaceNbsp(s) == [i \in 1..Len(s) |-> IF s[i] = NBSP THEN " " ELSE s[i]]

\* s.replace(/\s+/g, " ")
CollapseSpaces(s) == AtIndexes([i \in 1..Len(s) |-> IF IsSpace(s[i]) THEN " " ELSE s[i]], SelectSeq(Indexes(s), LAMBDA i : ~IsSpace(s[i]) \/ i = 1 \/ ~IsSpace(s[i - 1])))

\* String.prototype.trimStart
TrimStart(s) == SliceFrom(s, RunLength(s, 0, WhiteSpace))

\* String.prototype.trim
Trim(s) == LET lead == RunLength(s, 0, WhiteSpace)
               rest == SliceFrom(s, lead)
               keep == IF rest = <<>> THEN 0 ELSE CHOOSE n \in 1..Len(rest) : ~IsSpace(rest[n]) /\ \A j \in (n + 1)..Len(rest) : IsSpace(rest[j])
           IN SubSeq(rest, 1, keep)

\* normalizeSpaces
normalizeSpaces(line) == Trim(CollapseSpaces(ReplaceNbsp(line)))

\* s with every character of class removed
Remove(s, class) == SelectSeq(s, LAMBDA c : c \notin class)

\* s.replace(from, to) for single characters: the first occurrence only
ReplaceFirst(s, from, to) == LET i == IndexOf(s, <<from>>) IN IF i = -1 THEN s ELSE [j \in 1..Len(s) |-> IF j = i + 1 THEN to ELSE s[j]]

\* a variant of CleanedFrom that never looks for a comma
CleanedFromPlain(normalized) == Remove(normalized, WhiteSpace)

\* the cleaning of the normalized input: with a comma, white space and dots go and the
\* first comma becomes a dot; without, only white space goes
CleanedFrom(normalized) == IF Includes(normalized, <<",">>) THEN ReplaceFirst(Remove(normalized, WhiteSpace \cup {"."}), ",", ".") ELSE Remove(normalized, WhiteSpace)

\* the text parseAmountFR hands to Number.parseFloat
CleanedAmount(input) == CleanedFrom(CollapseSpaces(ReplaceNbsp(input)))

\* if (Number.isNaN(value)) throw new Error(`Invalid amount: ${input}`); return value
AmountResult(value) == [threw |-> value.kind = "NaN", value |-> value]

\* parseAmountFR: the number, or threw when it raises Invalid amount
parseAmountFR(input) == AmountResult(ParseFloat(CleanedAmount(input)))

(***************************************************************************)
(* String literals of the source.                                          *)
(***************************************************************************)
\* 'BNP PARIBAS'
S_BNP_PARIBAS == <<"B", "N", "P", " ", "P", "A", "R", "I", "B", "A", "S">>
\* 'CREDIT LYONNAIS'
S_CREDIT_LYONNAIS == <<"C", "R", "E", "D", "I", "T", " ", "L", "Y", "O", "N", "N", "A", "I", "S">>
\* 'LCL.FR'
S_LCL_FR == <<"L", "C", "L", ".", "F", "R">>
\* 'WWW.LCL.FR'
S_WWW_LCL_FR == <<"W", "W", "W", ".", "L", "C", "L", ".", "F", "R">>
\* 'LCL BANQUE'
S_LCL_BANQUE == <<"L", "C", "L", " ", "B", "A", "N", "Q", "U", "E">>
\* 'BANQUE POPULAIRE'
S_BANQUE_POPULAIRE == <<"B", "A", "N", "Q", "U", "E", " ", "P", "O", "P", "U", "L", "A", "I", "R", "E">>
\* 'QONTO'
S_QONTO == <<"Q", "O", "N", "T", "O">>
\* 'QNTOFRP'
S_QNTOFRP == <<"Q", "N", "T", "O", "F", "R", "P">>
\* 'CREDIT INDUSTRIEL ET COMMERCIAL'
S_CREDIT_INDUSTRIEL == <<"C", "R", "E", "D", "I", "T", " ", "I", "N", "D", "U", "S", "T", "R", "I", "E", "L", " ", "E", "T", " ", "C", "O", "M", "M", "E", "R", "C", "I", "A", "L">>
\* 'CIC'
S_CIC == <<"C", "I", "C">>
\* 'SOCIETE GENERALE'
S_SOCIETE_GENERALE == <<"S", "O", "C", "I", "E", "T", "E", " ", "G", "E", "N", "E", "R", "A", "L", "E">>
\* 'Texte indisponible.'
S_TEXTE_INDISPONIBLE == <<"T", "e", "x", "t", "e", " ", "i", "n", "d", "i", "s", "p", "o", "n", "i", "b", "l", "e", ".">>

(***************************************************************************)
(* Bank detection: the detect predicates of the parsers and the registry.  *)
(***************************************************************************)
\* bnpParser.detect without the case folding
BnpDetectCaseSensitive(pdfText) == Includes(pdfText, S_BNP_PARIBAS)

\* bnpParser.detect
BnpDetect(pdfText) == Includes(ToUpperCase(pdfText), S_BNP_PARIBAS)

\* lclParser.detect
LclDetect(pdfText) == LET upper == ToUpperCase(pdfText) IN \/ Includes(upper, S_CREDIT_LYONNAIS)
                                                           \/ Includes(upper, S_LCL_FR)
                                                           \/ Includes(upper, S_WWW_LCL_FR)
                                                           \/ Includes(upper, S_LCL_BANQUE)

\* banquePopulaireParser.detect
BanquePopulaireDetect(pdfText) == Includes(ToUpperCase(pdfText), S_BANQUE_POPULAIRE)

\* qontoParser.detect
QontoDetect(pdfText) == LET upper == ToUpperCase(pdfText) IN Includes(upper, S_QONTO) \/ Includes(upper, S_QNTOFRP)

\* cicParser.detect
CicDetect(pdfText) == \/ Includes(ToUpperCase(pdfText), S_CREDIT_INDUSTRIEL)
                      \/ Includes(ToUpperCase(pdfText), S_CIC)

\* sgParser.detect
SgDetect(pdfText) == Includes(ToUpperCase(pdfText), S_SOCIETE_GENERALE)

\* a registry into which cic was inserted first
parserRegistryCicFirst == <<"cic", "bnp", "lcl", "banque-populaire", "qonto", "societe-generale">>

\* the keys of parserRegistry, in insertion order (the order of Object.values)
parserRegistry == <<"bnp", "lcl", "banque-populaire", "qonto", "cic", "societe-generale">>

RegistryKeys == {parserRegistry[i] : i \in 1..Len(parserRegistry)}

\* parser.detect && parser.detect(pdfText), for the parser registered under bankId
ParserDetect(bankId, pdfText) == CASE bankId = "bnp" -> BnpDetect(pdfText)
                                   [] bankId = "lcl" -> LclDetect(pdfText)
                                   [] bankId = "banque-populaire" -> BanquePopulaireDetect(pdfText)
                                   [] bankId = "qonto" -> QontoDetect(pdfText)
                                   [] bankId = "cic" -> CicDetect(pdfText)
                                   [] bankId = "societe-generale" -> SgDetect(pdfText)

\* Array.prototype.find over the registry values, from position i on; "null" when none matches
RECURSIVE FindDetected(_, _)
FindDetected(i, pdfText) == IF i > Len(parserRegistry) THEN "null" ELSE IF ParserDetect(parserRegistry[i], pdfText) THEN parserRegistry[i] ELSE FindDetected(i + 1, pdfText)

\* Object.values(parserRegistry).find(...)?.bankId ?? null
Detect(pdfText) == FindDetected(1, pdfText)

(***************************************************************************)
(* PDF documents as the PDF library presents them.                         *)
(***************************************************************************)
\* 'bnp paribas'
F_BNP_LOWER == <<"b", "n", "p", " ", "p", "a", "r", "i", "b", "a", "s">>
\* 'BNP'
F_BNP_SPLIT == <<"B", "N", "P">>
\* 'PARIBAS'
F_PARIBAS == <<"P", "A", "R", "I", "B", "A", "S">>
\* 'cic'
F_CIC_LOWER == <<"c", "i", "c">>
\* 'VIR CIC LYON'
F_VIR_CIC == <<"V", "I", "R", " ", "C", "I", "C", " ", "L", "Y", "O", "N">>
\* 'Societe Generale'
F_SG_MIXED == <<"S", "o", "c", "i", "e", "t", "e", " ", "G", "e", "n", "e", "r", "a", "l", "e">>
\* 'BIC QNTOFRP1'
F_QONTO_BIC == <<"B", "I", "C", " ", "Q", "N", "T", "O", "F", "R", "P", "1">>
\* 'www.lcl.fr'
F_LCL_LOWER == <<"w", "w", "w", ".", "l", "c", "l", ".", "f", "r">>
\* 'Banque Populaire'
F_BP_MIXED == <<"B", "a", "n", "q", "u", "e", " ", "P", "o", "p", "u", "l", "a", "i", "r", "e">>
\* 'Credit Industriel et Commercial'
F_CREDIT_IND == <<"C", "r", "e", "d", "i", "t", " ", "I", "n", "d", "u", "s", "t", "r", "i", "e", "l", " ", "e", "t", " ", "C", "o", "m", "m", "e", "r", "c", "i", "a", "l">>
\* 'LOYER MARS'
F_LOYER == <<"L", "O", "Y", "E", "R", " ", "M", "A", "R", "S">>

\* a text item of a page (it has a str) and a marked-content item (it has none)
TextItem(str) == [hasStr |-> TRUE, str |-> str]

MarkedContent == [hasStr |-> FALSE, str |-> <<>>]

\* the item lists getTextContent yields for the pages of statements sent to the detect route
DetectPageItems == {<<TextItem(F_BNP_LOWER)>>, <<TextItem(F_BNP_SPLIT), TextItem(F_PARIBAS)>>, <<TextItem(F_BNP_SPLIT), TextItem(<<" ">>), TextItem(F_PARIBAS)>>, <<TextItem(F_VIR_CIC)>>, <<MarkedContent, TextItem(F_CIC_LOWER)>>, <<TextItem(F_SG_MIXED)>>, <<TextItem(F_QONTO_BIC)>>, <<TextItem(F_LCL_LOWER)>>, <<TextItem(F_BP_MIXED)>>, <<TextItem(F_CREDIT_IND)>>, <<TextItem(F_LOYER)>>}

\* the item lists of the pages of statements sent to the convert route
ConvertPageItems == {<<>>, <<TextItem(F_BNP_LOWER), TextItem(F_LOYER)>>}

\* a page: getPage rejects, or getTextContent rejects, or both resolve
Pages(itemLists) == {[outcome |-> "ok", items |-> it] : it \in itemLists} \cup {[outcome |-> "getPageFails", items |-> <<>>], [outcome |-> "getTextContentFails", items |-> <<>>]}

RECURSIVE SeqsUpTo(_, _)
SeqsUpTo(S, n) == IF n = 0 THEN {<<>>} ELSE LET shorter == SeqsUpTo(S, n - 1) IN shorter \cup {Append(q, x) : q \in {r \in shorter : Len(r) = n - 1}, x \in S}

\* a document: loadingTask.promise rejects, or resolves to a document of at most MaxPages pages
Documents(itemLists) == {[loadOk |-> FALSE, pages |-> <<>>]} \cup {[loadOk |-> TRUE, pages |-> ps] : ps \in SeqsUpTo(Pages(itemLists), MaxPages)}

\* content.items.map((item) => ("str" in item ? item.str : "")).join("")
PageText(items) == Concat([i \in 1..Len(items) |-> IF items[i].hasStr THEN items[i].str ELSE <<>>])

\* the text the extraction loop builds from a document all of whose pages resolve
RECURSIVE FlatText(_)
FlatText(pages) == IF pages = <<>> THEN <<>> ELSE PageText(Head(pages).items) \o <<"\n">> \o FlatText(Tail(pages))

(***************************************************************************)
(* The HTTP routes.                                                        *)
(***************************************************************************)
\* 15 * 1024 * 1024
MAX_FILE_SIZE == 15728640

\* formData.get("file"): absent, a string field, or a File of some size
MissingFile == [kind |-> "missing", size |-> 0, doc |-> [loadOk |-> FALSE, pages |-> <<>>]]

StringField == [kind |-> "string", size |-> 0, doc |-> [loadOk |-> FALSE, pages |-> <<>>]]

Files(itemLists) == {MissingFile, StringField} \cup {[kind |-> "File", size |-> MAX_FILE_SIZE + 1, doc |-> [loadOk |-> TRUE, pages |-> <<>>]]} \cup {[kind |-> "File", size |-> sz, doc |-> d] : sz \in {1, MAX_FILE_SIZE}, d \in Documents(itemLists)}

\* the values of the form field "bank": the registry keys, no value, an unregistered id,
\* and a property every object inherits from Object.prototype
BankFields == RegistryKeys \cup {"", "hsbc", "constructor"}

\* a lookup that falls back to a parser for every bank id
RegistryLookupWithDefault(bank) == "parser"

\* parserRegistry[bank]: the parser, an inherited property (truthy, without parse), or undefined
RegistryLookup(bank) == IF bank \in RegistryKeys THEN "parser" ELSE IF bank = "constructor" THEN "inherited" ELSE "undefined"

\* the parsers that extract a flat text (the others extract positioned lines)
FlatTextParsers == {"bnp", "banque-populaire", "qonto", "societe-generale"}

\* what the parser's text or line function does once extraction has succeeded:
\* it returns n transactions or throws; message is the Error message of the throw site
Returns(n) == [threw |-> FALSE, n |-> n, message |-> ""]

Throws(message) == [threw |-> TRUE, n |-> 0, message |-> message]

ParseOutcomes(bank) == CASE bank = "bnp" -> {Returns(n) : n \in 0..MaxTx} \cup {Throws("Format PDF non reconnu BNP"), Throws("Invalid amount")}
                         [] bank = "lcl" -> {Returns(n) : n \in 0..MaxTx}
                         [] bank = "banque-populaire" -> {Returns(n) : n \in 0..MaxTx} \cup {Throws("Format PDF non reconnu Banque Populaire")}
                         [] bank = "qonto" -> {Returns(n) : n \in 0..MaxTx} \cup {Throws("Invalid amount")}
                         [] bank = "cic" -> {Returns(n) : n \in 1..MaxTx} \cup {Throws("Format PDF non reconnu CIC"), Throws("Invalid amount")}
                         [] bank = "societe-generale" -> {Returns(n) : n \in 0..MaxTx} \cup {Throws("Format PDF non reconnu Societe Generale")}
                         [] OTHER -> {Returns(0)}

NoError == [thrown |-> FALSE, message |-> "", hasPdfText |-> FALSE, pdfText |-> <<>>]

NewError(message) == [thrown |-> TRUE, message |-> message, hasPdfText |-> FALSE, pdfText |-> <<>>]

NoResponse == [kind |-> "none", status |-> 0, bankId |-> "null", message |-> "", rows |-> <<>>, body |-> <<>>]

\* NextResponse.json({ error }, { status: 400 })
ErrorResponse(message) == [kind |-> "error", status |-> 400, bankId |-> "null", message |-> message, rows |-> <<>>, body |-> <<>>]

\* NextResponse.json({ bankId })
DetectedResponse(bankId) == [kind |-> "detected", status |-> 200, bankId |-> bankId, message |-> "", rows |-> <<>>, body |-> <<>>]

\* the workbook built from the transactions, status 200
WorkbookResponse(rows) == [kind |-> "workbook", status |-> 200, bankId |-> "null", message |-> "", rows |-> rows, body |-> <<>>]

\* extraction.txt, status 400
ExtractionResponse(body) == [kind |-> "extraction", status |-> 400, bankId |-> "null", message |-> "", rows |-> <<>>, body |-> body]

NoRequest == [route |-> "none", file |-> MissingFile, bank |-> "", debug |-> FALSE, parsed |-> Returns(0)]

\* the state of a request being served by a route
VARIABLES pc, req, attempt, pageNum, opened, cleaned, text, err, parseCalls, buildCalls, response

\* the transactions a parser has pushed so far; the route receives them when parse resolves
VARIABLES transactions

\* the local state of a parser's text or line function: its input, the lines it loops
\* over, its position in the loop, and the error it raised
VARIABLES ppc, pdfText, now, lines, lineIdx, thrown

\* the locals of parseSgPdf: the two amount columns, the row being assembled, the table flag
VARIABLES debitX, creditX, current, inTable

\* the locals of parseBnpText: the section heading last met, the row being assembled
VARIABLES currentSection, currentOperation

\* a call of one function of the library: its argument and what it gave
VARIABLES input, output

\* the locals of buildWorkbook: the two totals in cents and the rows added to the sheet
VARIABLES totalDebit, totalCredit, worksheet

\* two parse calls in flight, and the module state they share: the globals that
\* loadPdfJs fills, GlobalWorkerOptions.workerSrc and AMOUNT_FR_REGEX.lastIndex
VARIABLES calls, globalAny, workerSrc, lastIndex

\* cicParser.parse: let inCardSection
VARIABLES inCardSection

\* parseLclLines: const cardTransactions, let cardDetailsFound
VARIABLES cardTransactions, cardDetailsFound

\* the page (page.tsx): the state of the Home component, and the requests it has sent
\* that are not answered yet
VARIABLES ui, inflight

routeVars == <<pc, req, attempt, pageNum, opened, cleaned, text, err, parseCalls, buildCalls, response>>

sgVars == <<debitX, creditX, current, inTable>>

libVars == <<input, output>>

bookVars == <<totalDebit, totalCredit, worksheet>>

callVars == <<calls, globalAny, workerSrc, lastIndex>>

bnpVars == <<currentSection, currentOperation>>

cicVars == <<inCardSection>>

lclVars == <<cardTransactions, cardDetailsFound>>

uiVars == <<ui, inflight>>

auxVars == <<bnpVars, libVars, bookVars, callVars, cicVars, lclVars, uiVars>>

frameVars == <<ppc, pdfText, now, lines, lineIdx, thrown, sgVars, auxVars>>

vars == <<routeVars, transactions, frameVars>>

\* let current: {...} | null = null
NoCurrent == [dateOperation |-> [year |-> 1970, month |-> 1, day |-> 1], dateValeur |-> [year |-> 1970, month |-> 1, day |-> 1], label |-> <<>>, amount |-> [kind |-> "undefined", m |-> 0, k |-> 0], isNull |-> TRUE]

\* parseSgPdf is not running
SgIdle == /\ debitX = 0
          /\ creditX = 0
          /\ current = NoCurrent
          /\ inTable = FALSE

\* no library function is being called
LibIdle == /\ input = <<>>
           /\ output = <<>>

\* buildWorkbook is not running
BookIdle == /\ totalDebit = 0
            /\ totalCredit = 0
            /\ worksheet = <<>>

\* no parse call is in flight
CallsIdle == /\ calls = <<>>
             /\ globalAny = {}
             /\ workerSrc = ""
             /\ lastIndex = 0

\* let currentOperation: PendingOperation | null = null
NoOperation == [isNull |-> TRUE]

\* parseBnpText is not running
BnpIdle == /\ currentSection = <<>>
           /\ currentOperation = NoOperation

\* cicParser.parse is not running
CicIdle == inCardSection = FALSE

\* parseLclLines is not running
LclIdle == /\ cardTransactions = <<>>
           /\ cardDetailsFound = FALSE

\* the state of the Home component when it mounts: useState("bnp"), useState(null), ...
UiInitial == [bank |-> "bnp", file |-> 0, loading |-> FALSE, detecting |-> FALSE, detectedBank |-> "", detectError |-> "", manualOverride |-> FALSE, error |-> "", success |-> ""]

\* the page is as mounted and has sent nothing
UiIdle == /\ ui = UiInitial
          /\ inflight = {}

AuxIdle == /\ BnpIdle
           /\ CicIdle
           /\ LclIdle
           /\ UiIdle
           /\ LibIdle
           /\ BookIdle
           /\ CallsIdle

\* no text or line function is running
TextIdle == /\ ppc = "idle"
            /\ pdfText = <<>>
            /\ now = 0
            /\ lines = <<>>
            /\ lineIdx = 0
            /\ thrown = ""

\* no parser function is running
FrameIdle == /\ SgIdle
             /\ AuxIdle
             /\ TextIdle

RouteIdle == /\ pc = "idle"
             /\ req = NoRequest
             /\ attempt = 0
             /\ pageNum = 0
             /\ opened = {}
             /\ cleaned = {}
             /\ text = <<>>
             /\ err = NoError
             /\ parseCalls = 0
             /\ buildCalls = 0
             /\ response = NoResponse

Init == /\ RouteIdle
        /\ LclIdle
        /\ UiIdle
        /\ FrameIdle
        /\ transactions = <<>>

\* the handler returns a response without having called a parser
Respond(r) == /\ pc' = "done"
              /\ response' = r
              /\ UNCHANGED <<attempt, pageNum, opened, cleaned, text, err, transactions, parseCalls, buildCalls>>

\* getDocument(...) is called; the handler awaits loadingTask.promise
StartExtraction(n) == /\ pc' = "load"
                      /\ attempt' = n
                      /\ pageNum' = 0
                      /\ text' = <<>>

\* POST /api/detect up to the call of extractPdfText
DetectPost == /\ pc = "idle"
              /\ \E file \in Files(DetectPageItems) :
                   /\ req' = [route |-> "detect", file |-> file, bank |-> "", debug |-> FALSE, parsed |-> Returns(0)]
                   /\ IF file.kind # "File" THEN Respond(ErrorResponse("Fichier manquant."))
                      ELSE IF file.size > MAX_FILE_SIZE THEN Respond(ErrorResponse("Fichier trop volumineux (max 15MB)."))
                      ELSE /\ StartExtraction(1)
                           /\ UNCHANGED <<opened, cleaned, err, transactions, parseCalls, buildCalls, response>>
              /\ UNCHANGED frameVars

\* await loadingTask.promise
LoadDocument == /\ pc = "load"
                /\ IF ~req.file.doc.loadOk THEN pc' = "failed" /\ err' = IF attempt = 1 THEN NewError("Invalid PDF structure.") ELSE err
                   ELSE /\ pc' = IF Len(req.file.doc.pages) >= 1 THEN "getPage" ELSE "extracted"
                        /\ err' = err
                /\ pageNum' = 1
                /\ UNCHANGED <<req, attempt, opened, cleaned, text, transactions, parseCalls, buildCalls, response>>
                /\ UNCHANGED frameVars

\* await pdf.getPage(pageNum)
GetPage == /\ pc = "getPage"
           /\ IF req.file.doc.pages[pageNum].outcome = "getPageFails" THEN /\ pc' = "failed"
                                                                           /\ err' = IF attempt = 1 THEN NewError("Invalid page request.") ELSE err
                                                                           /\ opened' = opened
              ELSE /\ pc' = "getTextContent"
                   /\ opened' = opened \cup {<<attempt, pageNum>>}
                   /\ err' = err
           /\ UNCHANGED <<req, attempt, pageNum, cleaned, text, transactions, parseCalls, buildCalls, response>>
           /\ UNCHANGED frameVars

\* await page.getTextContent(), then the rest of the loop body: the text (or the lines)
\* of the page is appended and page.cleanup() is called
GetTextContent == /\ pc = "getTextContent"
                  /\ IF req.file.doc.pages[pageNum].outcome = "getTextContentFails" THEN /\ pc' = "failed"
                                                                                         /\ err' = IF attempt = 1 THEN NewError("Text content failed.") ELSE err
                                                                                         /\ UNCHANGED <<pageNum, cleaned, text>>
                     ELSE /\ text' = IF req.route = "detect" \/ req.bank \in FlatTextParsers THEN text \o PageText(req.file.doc.pages[pageNum].items) \o <<"\n">> ELSE text
                          /\ cleaned' = cleaned \cup {<<attempt, pageNum>>}
                          /\ pageNum' = pageNum + 1
                          /\ pc' = IF pageNum + 1 <= Len(req.file.doc.pages) THEN "getPage" ELSE "extracted"
                          /\ err' = err
                  /\ UNCHANGED <<req, attempt, opened, transactions, parseCalls, buildCalls, response>>
                  /\ UNCHANGED frameVars

\* the detect route once extractPdfText has returned: the registry sweep and the response
DetectRespond == /\ pc = "extracted"
                 /\ req.route = "detect"
                 /\ pc' = "done"
                 /\ response' = DetectedResponse(Detect(text))
                 /\ UNCHANGED <<req, attempt, pageNum, opened, cleaned, text, err, transactions, parseCalls, buildCalls>>
                 /\ UNCHANGED frameVars

\* the catch block of the detect route
DetectCatch == /\ pc = "failed"
               /\ req.route = "detect"
               /\ pc' = "done"
               /\ response' = ErrorResponse(err.message)
               /\ UNCHANGED <<req, attempt, pageNum, opened, cleaned, text, err, transactions, parseCalls, buildCalls>>
               /\ UNCHANGED frameVars

\* POST /api/convert up to the call of parser.parse(buffer), and parse up to its first await
ConvertPost == /\ pc = "idle"
               /\ \E file \in Files(ConvertPageItems), bank \in BankFields, debug \in BOOLEAN :
                    \E parsed \in ParseOutcomes(bank) :
                      /\ req' = [route |-> "convert", file |-> file, bank |-> bank, debug |-> debug, parsed |-> parsed]
                      /\ IF file.kind # "File" THEN Respond(ErrorResponse("Fichier manquant."))
                         ELSE IF bank = "" THEN Respond(ErrorResponse("Banque manquante."))
                         ELSE IF file.size > MAX_FILE_SIZE THEN Respond(ErrorResponse("Fichier trop volumineux (max 15MB)."))
                         ELSE IF RegistryLookup(bank) = "undefined" THEN Respond(ErrorResponse("Banque non supportee pour le moment."))
                         ELSE IF RegistryLookup(bank) = "inherited" THEN /\ pc' = "routeCatch"
                                                                         /\ err' = NewError("parser.parse is not a function")
                                                                         /\ UNCHANGED <<attempt, pageNum, opened, cleaned, text, transactions, parseCalls, buildCalls, response>>
                         ELSE /\ StartExtraction(1)
                              /\ parseCalls' = parseCalls + 1
                              /\ UNCHANGED <<opened, cleaned, err, transactions, buildCalls, response>>
               /\ UNCHANGED frameVars

\* the parser's text (or line) function returns its transactions; parse resolves
ParseReturns == /\ pc = "extracted"
                /\ req.route = "convert"
                /\ attempt = 1
                /\ ~req.parsed.threw
                /\ transactions' = [i \in 1..req.parsed.n |-> i]
                /\ pc' = "build"
                /\ UNCHANGED <<req, attempt, pageNum, opened, cleaned, text, err, parseCalls, buildCalls, response>>
                /\ UNCHANGED frameVars

\* a parser that swallows its structural error and returns the rows it has
ParseThrowsReturnsPartial == /\ pc = "extracted"
                             /\ req.route = "convert"
                             /\ attempt = 1
                             /\ req.parsed.threw
                             /\ transactions' = <<>>
                             /\ pc' = "build"
                             /\ UNCHANGED <<req, attempt, pageNum, opened, cleaned, text, err, parseCalls, buildCalls, response>>
                             /\ UNCHANGED frameVars

\* the parser's text (or line) function throws
ParseThrows == /\ pc = "extracted"
               /\ req.route = "convert"
               /\ attempt = 1
               /\ req.parsed.threw
               /\ err' = NewError(req.parsed.message)
               /\ pc' = "failed"
               /\ UNCHANGED <<req, attempt, pageNum, opened, cleaned, text, transactions, parseCalls, buildCalls, response>>
               /\ UNCHANGED frameVars

\* the catch block of bnpParser.parse: the input is a buffer, the text is extracted again
BnpCatch == /\ pc = "failed"
            /\ req.route = "convert"
            /\ req.bank = "bnp"
            /\ attempt = 1
            /\ StartExtraction(2)
            /\ UNCHANGED <<req, opened, cleaned, err, transactions, parseCalls, buildCalls, response>>
            /\ UNCHANGED frameVars

\* the second extraction of bnpParser.parse succeeded: pdfText is attached, the error rethrown
BnpAttachText == /\ pc = "extracted"
                 /\ req.route = "convert"
                 /\ attempt = 2
                 /\ err' = [err EXCEPT !.hasPdfText = TRUE, !.pdfText = text]
                 /\ pc' = "routeCatch"
                 /\ UNCHANGED <<req, attempt, pageNum, opened, cleaned, text, transactions, parseCalls, buildCalls, response>>
                 /\ UNCHANGED frameVars

\* the second extraction of bnpParser.parse failed: its error is ignored, the first rethrown
BnpSecondaryFailed == /\ pc = "failed"
                      /\ req.route = "convert"
                      /\ attempt = 2
                      /\ pc' = "routeCatch"
                      /\ UNCHANGED <<req, attempt, pageNum, opened, cleaned, text, err, transactions, parseCalls, buildCalls, response>>
                      /\ UNCHANGED frameVars

\* the parsers other than bnp have no catch block: parse rejects with the error as thrown
ParserRejects == /\ pc = "failed"
                 /\ req.route = "convert"
                 /\ req.bank # "bnp"
                 /\ pc' = "routeCatch"
                 /\ UNCHANGED <<req, attempt, pageNum, opened, cleaned, text, err, transactions, parseCalls, buildCalls, response>>
                 /\ UNCHANGED frameVars

\* await buildWorkbook(transactions) and the 200 response
BuildWorkbook == /\ pc = "build"
                 /\ buildCalls' = buildCalls + 1
                 /\ response' = WorkbookResponse(transactions)
                 /\ pc' = "done"
                 /\ UNCHANGED <<req, attempt, pageNum, opened, cleaned, text, err, transactions, parseCalls>>
                 /\ UNCHANGED frameVars

\* the catch block of the convert route
ConvertCatch == /\ pc = "routeCatch"
                /\ response' = IF req.debug THEN ExtractionResponse(IF err.hasPdfText /\ err.pdfText # <<>> THEN err.pdfText ELSE S_TEXTE_INDISPONIBLE)
                               ELSE ErrorResponse(IF err.message # "" THEN err.message ELSE "Erreur lors de la conversion.")
                /\ pc' = "done"
                /\ UNCHANGED <<req, attempt, pageNum, opened, cleaned, text, err, transactions, parseCalls, buildCalls>>
                /\ UNCHANGED frameVars

\* the response is sent; the server is ready for the next request
NextRequest == /\ pc = "done"
               /\ pc' = "idle"
               /\ req' = NoRequest
               /\ attempt' = 0
               /\ pageNum' = 0
               /\ opened' = {}
               /\ cleaned' = {}
               /\ text' = <<>>
               /\ err' = NoError
               /\ transactions' = <<>>
               /\ parseCalls' = 0
               /\ buildCalls' = 0
               /\ response' = NoResponse
               /\ UNCHANGED frameVars

Next == \/ DetectPost
        \/ ConvertPost
        \/ LoadDocument
        \/ GetPage
        \/ GetTextContent
        \/ DetectRespond
        \/ DetectCatch
        \/ ParseReturns
        \/ ParseThrows
        \/ BnpCatch
        \/ BnpAttachText
        \/ BnpSecondaryFailed
        \/ ParserRejects
        \/ BuildWorkbook
        \/ ConvertCatch
        \/ NextRequest

Spec == Init /\ [][Next]_vars

(***************************************************************************)
(* The Qonto parser (qonto.ts): parseQontoText, one loop iteration a step.  *)
(***************************************************************************)
\* 'DATE DE VALEUR'
S_DATE_DE_VALEUR == <<"D", "A", "T", "E", " ", "D", "E", " ", "V", "A", "L", "E", "U", "R">>
\* 'ENVY DE LIVE'
S_ENVY_DE_LIVE == <<"E", "N", "V", "Y", " ", "D", "E", " ", "L", "I", "V", "E">>

\* /\d{2}\/\d{2}/ matches at 0-based position i
IsDDMM(s, i) == /\ i + 5 <= Len(s)
                /\ IsDigit(s[i + 1])
                /\ IsDigit(s[i + 2])
                /\ s[i + 3] = "/"
                /\ IsDigit(s[i + 4])
                /\ IsDigit(s[i + 5])

\* /\/\d{4}/ matches at 0-based position i
IsSlashYear(s, i) == /\ i + 5 <= Len(s)
                     /\ s[i + 1] = "/"
                     /\ \A k \in 2..5 : IsDigit(s[i + k])

\* /Du\s+\d{2}\/\d{2}\/(\d{4})/i matches at 0-based position i
IsDuDateAt(s, i) == /\ i + 3 <= Len(s)
                    /\ ToUpperChar(s[i + 1]) = "D"
                    /\ ToUpperChar(s[i + 2]) = "U"
                    /\ RunLength(s, i + 2, WhiteSpace) >= 1
                    /\ IsDDMM(s, i + 2 + RunLength(s, i + 2, WhiteSpace))
                    /\ IsSlashYear(s, i + 7 + RunLength(s, i + 2, WhiteSpace))

\* parseDateFromHeader: the year of the first "Du dd/mm/yyyy", else the current UTC year
parseDateFromHeader(text0, currentYear) == IF \E i \in 0..Len(text0) : IsDuDateAt(text0, i)
                                           THEN LET i == CHOOSE i \in 0..Len(text0) : IsDuDateAt(text0, i) /\ \A j \in 0..(i - 1) : ~IsDuDateAt(text0, j)
                                                    y == i + 8 + RunLength(text0, i + 2, WhiteSpace)
                                                IN ToNat(SubSeq(text0, y + 1, y + 4))
                                           ELSE currentYear

\* parseShortDate of qonto.ts: token.split("/").map(Number), then Date.UTC(year, month - 1, day)
QontoParseShortDate(token, year) == DateUTC(year, ToNat(SubSeq(token, 4, 5)) - 1, ToNat(SubSeq(token, 1, 2)))

\* s.replace(/\r/g, "\n")
ReplaceCr(s) == [i \in 1..Len(s) |-> IF s[i] = "\r" THEN "\n" ELSE s[i]]

\* s.replace(/(\d{2}\/\d{2})(?=\s)/g, "\n$1")
RECURSIVE BreakBeforeDates(_)
IsBreakDate(s, j) == IsDDMM(s, j) /\ Len(s) > j + 5 /\ IsSpace(s[j + 6])

BreakBeforeDatesAt(s, j) == Slice(s, 0, j) \o <<"\n">> \o Slice(s, j, j + 5) \o BreakBeforeDates(SliceFrom(s, j + 5))

BreakBeforeDates(s) == IF \A j \in 0..(Len(s) - 1) : ~IsBreakDate(s, j) THEN s ELSE BreakBeforeDatesAt(s, CHOOSE j \in 0..(Len(s) - 1) : IsBreakDate(s, j) /\ \A k \in 0..(j - 1) : ~IsBreakDate(s, k))

\* s.replace(/\n{2,}/g, "\n")
CollapseNewlines(s) == AtIndexes(s, SelectSeq(Indexes(s), LAMBDA i : s[i] # "\n" \/ i = 1 \/ s[i - 1] # "\n"))

\* s.split(/\r?\n/)
RECURSIVE SplitLines(_)
SplitLines(s) == LET n == IndexOf(s, <<"\n">>)
                 IN IF n = -1 THEN <<s>>
                    ELSE <<(IF n >= 1 /\ s[n] = "\r" THEN SubSeq(s, 1, n - 1) ELSE SubSeq(s, 1, n))>> \o SplitLines(SliceFrom(s, n + 1))

\* the lines parseQontoText loops over
QontoLines(text0) == LET normalized == CollapseNewlines(BreakBeforeDates(ReplaceCr(text0)))
                         split == SplitLines(normalized)
                     IN SelectSeq([i \in 1..Len(split) |-> normalizeSpaces(split[i])], LAMBDA line : Len(line) > 0)

\* /^\d{2}\/\d{2}\b(?!\/\d{4})/.test(line)
QontoRowStart(line) == /\ IsDDMM(line, 0)
                       /\ (Len(line) = 5 \/ ~IsWordChar(line[6]))
                       /\ ~IsSlashYear(line, 5)

\* the three tests that make the loop skip a line
QontoSkips(line) == \/ ~QontoRowStart(line)
                    \/ OccursAt(ToUpperCase(line), S_ENVY_DE_LIVE, 0)
                    \/ Includes(ToUpperCase(line), S_DATE_DE_VALEUR)

\* the length of the match of /([+-])\s*([\d.,]+)\s*EUR/i at 0-based position i, 0 when none
QontoAmountLength(line, i) == IF i < Len(line) /\ line[i + 1] \in {"+", "-"}
                              THEN LET w1 == RunLength(line, i + 1, WhiteSpace)
                                       n == RunLength(line, i + 1 + w1, Digits \cup {".", ","})
                                       w2 == RunLength(line, i + 1 + w1 + n, WhiteSpace)
                                       e == i + 1 + w1 + n + w2
                                   IN IF n >= 1 /\ e + 3 <= Len(line) /\ ToUpperCase(SubSeq(line, e + 1, e + 3)) = <<"E", "U", "R">> THEN e + 3 - i ELSE 0
                              ELSE 0

\* line.match(/([+-])\s*([\d.,]+)\s*EUR/i): the leftmost match and its two groups
QontoAmountMatch(line) == IF \E i \in 0..Len(line) : QontoAmountLength(line, i) > 0
                          THEN LET i == CHOOSE i \in 0..Len(line) : QontoAmountLength(line, i) > 0 /\ \A j \in 0..(i - 1) : QontoAmountLength(line, j) = 0
                                   w1 == RunLength(line, i + 1, WhiteSpace)
                                   n == RunLength(line, i + 1 + w1, Digits \cup {".", ","})
                               IN [found |-> TRUE, all |-> SubSeq(line, i + 1, i + QontoAmountLength(line, i)), sign |-> line[i + 1], digits |-> SubSeq(line, i + 2 + w1, i + 1 + w1 + n)]
                          ELSE [found |-> FALSE, all |-> <<>>, sign |-> "+", digits |-> <<>>]

\* const label = normalizeSpaces(line.slice(5, amountIndex))
QontoLabel(line, amountMatch) == normalizeSpaces(Slice(line, 5, LastIndexOf(line, amountMatch.all)))

\* the transaction parseQontoText pushes for a line with an amount that parses
QontoTransaction(line, year) == LET amountMatch == QontoAmountMatch(line)
                                    sign == IF amountMatch.sign = "-" THEN -1 ELSE 1
                                    amount == parseAmountFR(amountMatch.digits).value
                                IN [dateOperation |-> QontoParseShortDate(SubSeq(line, 1, 5), year), dateValeur |-> QontoParseShortDate(SubSeq(line, 1, 5), year), label |-> QontoLabel(line, amountMatch), amount |-> Times(amount, sign)]

\* '15/03 STRIPE +1 234,56 EUR'
Q_STRIPE == <<"1", "5", "/", "0", "3", " ", "S", "T", "R", "I", "P", "E", " ", "+", "1", " ", "2", "3", "4", ",", "5", "6", " ", "E", "U", "R">>
\* '17/03 FEE -2,00 EUR'
Q_FEE == <<"1", "7", "/", "0", "3", " ", "F", "E", "E", " ", "-", "2", ",", "0", "0", " ", "E", "U", "R">>
\* '16/03 +1,00 EUR'
Q_NOLABEL == <<"1", "6", "/", "0", "3", " ", "+", "1", ",", "0", "0", " ", "E", "U", "R">>
\* '18/03 X +, EUR'
Q_BADAMOUNT == <<"1", "8", "/", "0", "3", " ", "X", " ", "+", ",", " ", "E", "U", "R">>
\* '19/03 NOTE'
Q_NOAMOUNT == <<"1", "9", "/", "0", "3", " ", "N", "O", "T", "E">>
\* 'Du 01/03/2024 au 31/03/2024'
Q_HEADER == <<"D", "u", " ", "0", "1", "/", "0", "3", "/", "2", "0", "2", "4", " ", "a", "u", " ", "3", "1", "/", "0", "3", "/", "2", "0", "2", "4">>
\* '20/03 Date de valeur +1,00 EUR'
Q_VALEUR == <<"2", "0", "/", "0", "3", " ", "D", "a", "t", "e", " ", "d", "e", " ", "v", "a", "l", "e", "u", "r", " ", "+", "1", ",", "0", "0", " ", "E", "U", "R">>
\* '21/03/2024 X +3,00 EUR'
Q_LONGDATE == <<"2", "1", "/", "0", "3", "/", "2", "0", "2", "4", " ", "X", " ", "+", "3", ",", "0", "0", " ", "E", "U", "R">>
\* '22/03 A 23/03 B -4,50 EUR'
Q_TWOROWS == <<"2", "2", "/", "0", "3", " ", "A", " ", "2", "3", "/", "0", "3", " ", "B", " ", "-", "4", ",", "5", "0", " ", "E", "U", "R">>
\* '24/03 -1,00 EUR X -1,00 EUR'
Q_REPEAT == <<"2", "4", "/", "0", "3", " ", "-", "1", ",", "0", "0", " ", "E", "U", "R", " ", "X", " ", "-", "1", ",", "0", "0", " ", "E", "U", "R">>
\* '25/03 PAY +1.234,56 eur'
Q_THOUSANDS == <<"2", "5", "/", "0", "3", " ", "P", "A", "Y", " ", "+", "1", ".", "2", "3", "4", ",", "5", "6", " ", "e", "u", "r">>

\* the rows Qonto statements are made of in the model
QontoRows == {Q_STRIPE, Q_FEE, Q_NOLABEL, Q_BADAMOUNT, Q_NOAMOUNT, Q_HEADER, Q_VALEUR, Q_LONGDATE, Q_TWOROWS, Q_REPEAT, Q_THOUSANDS}

\* the texts given to parseQontoText: at most MaxQontoLines rows, one per line
QontoTexts == {Join(rows, <<"\n">>) : rows \in SeqsUpTo(QontoRows, MaxQontoLines)}

\* the values of new Date().getUTCFullYear()
CurrentYears == {2025, 2026}

InitQonto == /\ RouteIdle
             /\ SgIdle
             /\ AuxIdle
             /\ transactions = <<>>
             /\ ppc = "start"
             /\ pdfText \in QontoTexts
             /\ now \in CurrentYears
             /\ lines = <<>>
             /\ lineIdx = 0
             /\ thrown = ""

\* parseQontoText up to the loop: the year and the lines
QontoSplit == /\ ppc = "start"
              /\ lines' = QontoLines(pdfText)
              /\ lineIdx' = 1
              /\ ppc' = "loop"
              /\ UNCHANGED <<pdfText, now, transactions, thrown, routeVars, auxVars, sgVars>>

\* one of the three continue statements at the head of the loop body
QontoSkipLine == /\ ppc = "loop"
                 /\ lineIdx <= Len(lines)
                 /\ QontoSkips(lines[lineIdx])
                 /\ lineIdx' = lineIdx + 1
                 /\ UNCHANGED <<ppc, pdfText, now, lines, transactions, thrown, routeVars, auxVars, sgVars>>

\* if (!amountMatch) continue
QontoDropRow == /\ ppc = "loop"
                /\ lineIdx <= Len(lines)
                /\ ~QontoSkips(lines[lineIdx])
                /\ ~QontoAmountMatch(lines[lineIdx]).found
                /\ lineIdx' = lineIdx + 1
                /\ UNCHANGED <<ppc, pdfText, now, lines, transactions, thrown, routeVars, auxVars, sgVars>>

\* parseAmountFR raises; nothing in parseQontoText catches it
QontoThrow == /\ ppc = "loop"
              /\ lineIdx <= Len(lines)
              /\ ~QontoSkips(lines[lineIdx])
              /\ QontoAmountMatch(lines[lineIdx]).found
              /\ parseAmountFR(QontoAmountMatch(lines[lineIdx]).digits).threw
              /\ ppc' = "threw"
              /\ thrown' = "Invalid amount"
              /\ UNCHANGED <<pdfText, now, lines, lineIdx, transactions, routeVars, auxVars, sgVars>>

\* transactions.push({...})
QontoEmitRow == /\ ppc = "loop"
                /\ lineIdx <= Len(lines)
                /\ ~QontoSkips(lines[lineIdx])
                /\ QontoAmountMatch(lines[lineIdx]).found
                /\ ~parseAmountFR(QontoAmountMatch(lines[lineIdx]).digits).threw
                /\ transactions' = Append(transactions, QontoTransaction(lines[lineIdx], parseDateFromHeader(pdfText, now)))
                /\ lineIdx' = lineIdx + 1
                /\ UNCHANGED <<ppc, pdfText, now, lines, thrown, routeVars, auxVars, sgVars>>

\* return transactions
QontoReturn == /\ ppc = "loop"
               /\ lineIdx > Len(lines)
               /\ ppc' = "done"
               /\ UNCHANGED <<pdfText, now, lines, lineIdx, transactions, thrown, routeVars, auxVars, sgVars>>

NextQonto == \/ QontoSplit
             \/ QontoSkipLine
             \/ QontoDropRow
             \/ QontoThrow
             \/ QontoEmitRow
             \/ QontoReturn

SpecQonto == InitQonto /\ [][NextQonto]_vars

(***************************************************************************)
(* The Societe Generale geometry parser (sg.ts): parseSgPdf over the lines  *)
(* of positioned items that extractLinesFromPdf builds.  sgParser.parse     *)
(* runs parseSgText on both kinds of input; parseSgPdf is modelled as the   *)
(* function it is, called on its own.                                       *)
(***************************************************************************)
\* 'Date'
S_DATE == <<"D", "a", "t", "e">>
\* 'Valeur'
S_VALEUR == <<"V", "a", "l", "e", "u", "r">>
\* 'BIT'
S_BIT == <<"B", "I", "T">>
\* 'DIT'
S_DIT == <<"D", "I", "T">>
\* 'DATE VALEUR'
S_DATE_VALEUR == <<"D", "A", "T", "E", " ", "V", "A", "L", "E", "U", "R">>
\* 'NATURE'
S_NATURE == <<"N", "A", "T", "U", "R", "E">>
\* 'TOTAUX DES MOUVEMENTS'
S_TOTAUX_DES_MOUVEMENTS == <<"T", "O", "T", "A", "U", "X", " ", "D", "E", "S", " ", "M", "O", "U", "V", "E", "M", "E", "N", "T", "S">>
\* 'NOUVEAU SOLDE'
S_NOUVEAU_SOLDE == <<"N", "O", "U", "V", "E", "A", "U", " ", "S", "O", "L", "D", "E">>
\* 'SOLDE PRECEDENT'
S_SOLDE_PRECEDENT == <<"S", "O", "L", "D", "E", " ", "P", "R", "E", "C", "E", "D", "E", "N", "T">>
\* 'RELEVE DE COMPTE'
S_RELEVE_DE_COMPTE == <<"R", "E", "L", "E", "V", "E", " ", "D", "E", " ", "C", "O", "M", "P", "T", "E">>
\* '01/03/2024'
T_DATE1 == <<"0", "1", "/", "0", "3", "/", "2", "0", "2", "4">>
\* '02/03/2024'
T_DATE2 == <<"0", "2", "/", "0", "3", "/", "2", "0", "2", "4">>
\* 'Nature'
T_NATURE == <<"N", "a", "t", "u", "r", "e">>
\* 'Debit'
T_DEBIT == <<"D", "e", "b", "i", "t">>
\* 'Credit'
T_CREDIT == <<"C", "r", "e", "d", "i", "t">>
\* 'CARTE X'
T_CARTE == <<"C", "A", "R", "T", "E", " ", "X">>
\* 'VIR RECU DUPONT'
T_VIR_RECU == <<"V", "I", "R", " ", "R", "E", "C", "U", " ", "D", "U", "P", "O", "N", "T">>
\* 'CHEQUE 12'
T_CHEQUE == <<"C", "H", "E", "Q", "U", "E", " ", "1", "2">>
\* 'REMISE CB 20,00'
T_REMISE == <<"R", "E", "M", "I", "S", "E", " ", "C", "B", " ", "2", "0", ",", "0", "0">>
\* 'REF 77'
T_SUITE == <<"R", "E", "F", " ", "7", "7">>
\* 'TOTAUX DES MOUVEMENTS'
T_TOTAUX == <<"T", "O", "T", "A", "U", "X", " ", "D", "E", "S", " ", "M", "O", "U", "V", "E", "M", "E", "N", "T", "S">>
\* 'SOLDE PRECEDENT'
T_SOLDE == <<"S", "O", "L", "D", "E", " ", "P", "R", "E", "C", "E", "D", "E", "N", "T">>
\* '12,34'
T_A1234 == <<"1", "2", ",", "3", "4">>
\* '1 050,00'
T_A5000 == <<"1", " ", "0", "5", "0", ",", "0", "0">>
\* '7,00'
T_A700 == <<"7", ",", "0", "0">>

\* const CREDIT_HINTS = ["REMISE CB", "VIR RECU", "REMISE CHEQUE"]
CREDIT_HINTS == <<<<"R", "E", "M", "I", "S", "E", " ", "C", "B">>,
                 <<"V", "I", "R", " ", "R", "E", "C", "U">>,
                 <<"R", "E", "M", "I", "S", "E", " ", "C", "H", "E", "Q", "U", "E">>>>

\* const DEBIT_HINTS = ["PRELEVEMENT", "VRST GAB", "VIR EUROPEEN EMIS", "VIR INSTANTANE EMIS",
\* "DEBIT", "COTIS", "FRAIS", "ECHEANCE", "CHEQUE "]
DEBIT_HINTS == <<<<"P", "R", "E", "L", "E", "V", "E", "M", "E", "N", "T">>,
                <<"V", "R", "S", "T", " ", "G", "A", "B">>,
                <<"V", "I", "R", " ", "E", "U", "R", "O", "P", "E", "E", "N", " ", "E", "M", "I", "S">>,
                <<"V", "I", "R", " ", "I", "N", "S", "T", "A", "N", "T", "A", "N", "E", " ", "E", "M", "I", "S">>,
                <<"D", "E", "B", "I", "T">>,
                <<"C", "O", "T", "I", "S">>,
                <<"F", "R", "A", "I", "S">>,
                <<"E", "C", "H", "E", "A", "N", "C", "E">>,
                <<"C", "H", "E", "Q", "U", "E", " ">>>>

\* the values null and undefined where a number is expected
Null == [kind |-> "null", m |-> 0, k |-> 0]

Undefined == [kind |-> "undefined", m |-> 0, k |-> 0]

\* a ?? b
Coalesce(a, b) == IF a.kind \in {"null", "undefined"} THEN b ELSE a

\* /\d{2}\/\d{2}\/\d{4}/ matches at 0-based position i
IsLongDate(s, i) == IsDDMM(s, i) /\ IsSlashYear(s, i + 5)

\* text.match(/\d{2}\/\d{2}\/\d{4}/g) ?? []
RECURSIVE LongDateTokens(_, _)
LongDateTokensAt(s, j) == <<SubSeq(s, j + 1, j + 10)>> \o LongDateTokens(s, j + 10)

LongDateTokens(s, i) == IF \A j \in i..(Len(s) - 1) : ~IsLongDate(s, j) THEN <<>> ELSE LongDateTokensAt(s, CHOOSE j \in i..(Len(s) - 1) : IsLongDate(s, j) /\ \A k \in i..(j - 1) : ~IsLongDate(s, k))

\* parseDateFRLong: token.split("/").map(Number), then Date.UTC(year, month - 1, day)
parseDateFRLong(token) == DateUTC(ToNat(SubSeq(token, 7, 10)), ToNat(SubSeq(token, 4, 5)) - 1, ToNat(SubSeq(token, 1, 2)))

\* (?:[  .]\d{3}) matches at 0-based position i
IsThousandsGroup(s, i) == /\ i + 4 <= Len(s)
                          /\ s[i + 1] \in {" ", NBSP, "."}
                          /\ \A k \in 2..4 : IsDigit(s[i + k])

\* the position after the longest run of thousands groups that starts at i
RECURSIVE AfterGroups(_, _)
AfterGroups(s, i) == IF IsThousandsGroup(s, i) THEN AfterGroups(s, i + 4) ELSE i

\* the length of the match of /\d{1,3}(?:[  .]\d{3})*,\d{2}/ at 0-based position i,
\* 0 when none; giving back a digit or a group leaves a digit or a separator where
\* the comma has to be, so only the greedy choice can match
AmountFRLength(s, i) == LET d == Min(3, RunLength(s, i, Digits))
                            g == AfterGroups(s, i + d)
                        IN IF d >= 1 /\ g + 3 <= Len(s) /\ s[g + 1] = "," /\ IsDigit(s[g + 2]) /\ IsDigit(s[g + 3]) THEN g + 3 - i ELSE 0

\* /^\d{1,3}(?:[  .]\d{3})*,\d{2}$/.test(raw)
IsAmountFR(raw) == Len(raw) > 0 /\ AmountFRLength(raw, 0) = Len(raw)

\* extractLastAmount: the match that ends last, the leftmost one among those
extractLastAmount(text0) == LET starts == {i \in 0..(Len(text0) - 1) : AmountFRLength(text0, i) > 0}
                                End(i) == i + AmountFRLength(text0, i)
                            IN IF starts = {} THEN Null
                               ELSE LET best == CHOOSE i \in starts : \A j \in starts : End(j) < End(i) \/ (End(j) = End(i) /\ i <= j)
                                    IN parseAmountFR(SubSeq(text0, best + 1, End(best))).value

\* inferSign of sg.ts
SgInferSign(line) == LET upper == ToUpperCase(line)
                     IN IF Includes(upper, <<"*">>) THEN -1
                        ELSE IF \E h \in 1..Len(CREDIT_HINTS) : Includes(upper, CREDIT_HINTS[h]) THEN 1
                        ELSE IF \E h \in 1..Len(DEBIT_HINTS) : Includes(upper, DEBIT_HINTS[h]) THEN -1
                        ELSE -1

\* bucket.push({ text: item.str, x })
LineItem(str, x) == [text |-> str, x |-> x]

\* sorted.map((it) => it.text)
ItemTexts(items) == [i \in 1..Len(items) |-> items[i].text]

\* { text: normalizeSpaces(sorted.map((it) => it.text).join(" ")), items: sorted }
PdfLine(items) == [text |-> normalizeSpaces(Join(ItemTexts(items), <<" ">>)), items |-> items]

\* Array.prototype.find, as the 1-based index of the first element in the set of the
\* indexes that pass the test, 0 when none passes
FirstIndex(passing) == IF passing = {} THEN 0 ELSE CHOOSE i \in passing : \A j \in passing : i <= j

\* a regular expression head.?tail tested case-insensitively, as /D.?bit/i and /Cr.?dit/i
TestOptionalChar(s, head, tail) == LET upper == ToUpperCase(s)
                                       n == Len(head)
                                   IN \E i \in 0..Len(s) : /\ OccursAt(upper, head, i)
                                                           /\ \/ OccursAt(upper, tail, i + n)
                                                              \/ i + n < Len(s) /\ s[i + n + 1] \notin {"\n", "\r"} /\ OccursAt(upper, tail, i + n + 1)

\* line.text.includes("Date") && line.text.includes("Valeur")
SgIsHeaderLine(line) == Includes(line.text, S_DATE) /\ Includes(line.text, S_VALEUR)

SgIsDebitItem(item) == TestOptionalChar(item.text, <<"D">>, S_BIT)

SgIsCreditItem(item) == TestOptionalChar(item.text, <<"C", "R">>, S_DIT)

\* headerLine.items.find(...) for the two column titles: <<debitX, creditX>>, <<0, 0>>
\* unless both are found
SgTitleColumns(items) == LET d == FirstIndex({i \in 1..Len(items) : SgIsDebitItem(items[i])})
                             c == FirstIndex({i \in 1..Len(items) : SgIsCreditItem(items[i])})
                         IN IF d # 0 /\ c # 0 THEN <<items[d].x, items[c].x>> ELSE <<0, 0>>

\* the columns read from the header line: <<debitX, creditX>>, <<0, 0>> when not found
SgHeaderColumns(pdfLines) == LET h == FirstIndex({i \in 1..Len(pdfLines) : SgIsHeaderLine(pdfLines[i])})
                             IN IF h = 0 THEN <<0, 0>> ELSE SgTitleColumns(pdfLines[h].items)

\* Math.round(x / 5) * 5
Round5(x) == 5 * ((2 * x + 5) \div 10)

\* the keys of the buckets Map: the rounded positions of the items that are amounts
SgBuckets(pdfLines) == UNION {{Round5(pdfLines[l].items[i].x) : i \in {j \in 1..Len(pdfLines[l].items) : IsAmountFR(normalizeSpaces(pdfLines[l].items[j].text))}} : l \in 1..Len(pdfLines)}

SetMax(S) == CHOOSE x \in S : \A y \in S : y <= x

\* the columns read from the buckets, for at least two buckets: <<debitX, creditX>>
SgBucketColumns(keys) == LET credit == SetMax(keys)
                             left == {key \in keys : key < credit - 10}
                         IN <<IF left # {} THEN SetMax(left) ELSE SetMax(keys \ {credit}), credit>>

\* the columns before the swap, and whether the function throws instead
SgColumns(pdfLines) == LET header == SgHeaderColumns(pdfLines)
                       IN IF header[1] # 0 /\ header[2] # 0 THEN [threw |-> FALSE, debitX |-> header[1], creditX |-> header[2]]
                          ELSE IF Cardinality(SgBuckets(pdfLines)) >= 2 THEN [threw |-> FALSE, debitX |-> SgBucketColumns(SgBuckets(pdfLines))[1], creditX |-> SgBucketColumns(SgBuckets(pdfLines))[2]]
                          ELSE [threw |-> TRUE, debitX |-> 0, creditX |-> 0]

\* upper.includes("DATE VALEUR") && upper.includes("NATURE")
SgOpensTable(line) == Includes(ToUpperCase(line.text), S_DATE_VALEUR) /\ Includes(ToUpperCase(line.text), S_NATURE)

\* upper.includes("TOTAUX DES MOUVEMENTS") || upper.includes("NOUVEAU SOLDE")
SgClosesTable(line) == Includes(ToUpperCase(line.text), S_TOTAUX_DES_MOUVEMENTS) \/ Includes(ToUpperCase(line.text), S_NOUVEAU_SOLDE)

\* upper.includes("SOLDE PRECEDENT") || upper.includes("RELEVE DE COMPTE")
SgIgnoredInTable(line) == Includes(ToUpperCase(line.text), S_SOLDE_PRECEDENT) \/ Includes(ToUpperCase(line.text), S_RELEVE_DE_COMPTE)

\* line.items.filter((item) => /\d{2}\/\d{2}\/\d{4}/.test(item.text))
SgDateItems(line) == SelectSeq(line.items, LAMBDA item : \E i \in 0..Len(item.text) : IsLongDate(item.text, i))

\* dateTokens.length >= 2 && dateItems.length >= 2 && dateItems[0].x < 70
SgStartsWithDate(line) == /\ Len(LongDateTokens(line.text, 0)) >= 2
                          /\ Len(SgDateItems(line)) >= 2
                          /\ SgDateItems(line)[1].x < 70

\* the items of the line that are amounts, each with its position and its value
SgAmounts(line) == LET amountItems == SelectSeq(line.items, LAMBDA item : IsAmountFR(normalizeSpaces(item.text)))
                   IN [i \in 1..Len(amountItems) |-> [x |-> amountItems[i].x, value |-> parseAmountFR(normalizeSpaces(amountItems[i].text)).value]]

\* amounts.filter(...).map((item) => item.value).pop()
LastValue(amounts) == IF amounts = <<>> THEN Undefined ELSE amounts[Len(amounts)].value

\* item.x < columnSplit, with columnSplit = (debitX + creditX) / 2
SgDebitAmount(amounts, dX, cX) == LastValue(SelectSeq(amounts, LAMBDA item : 2 * item.x < dX + cX))

\* item.x >= columnSplit
SgCreditAmount(amounts, dX, cX) == LastValue(SelectSeq(amounts, LAMBDA item : 2 * item.x >= dX + cX))

\* the sign given to resolvedAmount: the credit column, else the debit column, else the label
SgSigned(resolvedAmount, creditAmount, debitAmount, label) == IF resolvedAmount.kind = "null" THEN Undefined
                                                              ELSE IF creditAmount.kind # "undefined" THEN resolvedAmount
                                                              ELSE IF debitAmount.kind # "undefined" THEN Times(resolvedAmount, -1)
                                                              ELSE Times(resolvedAmount, SgInferSign(label))

\* resolvedAmount = textAmount ?? creditAmount ?? debitAmount ?? null, then its sign
SgResolved(textAmount, creditAmount, debitAmount, label) == SgSigned(Coalesce(textAmount, Coalesce(creditAmount, Coalesce(debitAmount, Null))), creditAmount, debitAmount, label)

\* the amount a line gives to the row, undefined when the line has none
SgSignedAmount(line, dX, cX, label) == SgResolved(extractLastAmount(line.text), SgCreditAmount(SgAmounts(line), dX, cX), SgDebitAmount(SgAmounts(line), dX, cX), label)

\* the label of a start line: the items between the second date and the debit column
SgStartLabel(line, dX) == normalizeSpaces(Join(ItemTexts(SelectSeq(line.items, LAMBDA item : item.x > SgDateItems(line)[2].x + 2 /\ item.x < dX - 5)), <<" ">>))

\* the text a continuation line adds to the label
SgExtraLabel(line, dX) == normalizeSpaces(Join(ItemTexts(SelectSeq(line.items, LAMBDA item : item.x < dX - 5)), <<" ">>))

\* current = { dateOperation, dateValeur, label, amount: signedAmount ?? undefined }
SgRow(dateTokens, label, amount) == [dateOperation |-> parseDateFRLong(dateTokens[2]), dateValeur |-> parseDateFRLong(dateTokens[1]), label |-> label, amount |-> amount, isNull |-> FALSE]

SgLabelledRow(line, dX, cX, label) == SgRow(LongDateTokens(line.text, 0), label, SgSignedAmount(line, dX, cX, label))

\* the row a start line opens
SgNewCurrent(line, dX, cX) == SgLabelledRow(line, dX, cX, SgStartLabel(line, dX))

\* amount: current.amount ?? 0
SgPushedAmount(amount) == Coalesce(amount, Decimal(0, 0))

\* the transaction pushed for the row being assembled
SgTransaction(row) == [dateOperation |-> row.dateOperation, dateValeur |-> row.dateValeur, label |-> row.label, amount |-> SgPushedAmount(row.amount)]

\* current.amount is assigned only when the line has an amount
SgWithAmount(row, label, amount) == [row EXCEPT !.label = label, !.amount = IF amount.kind = "undefined" THEN row.amount ELSE amount]

SgRelabelled(row, line, dX, cX, label) == SgWithAmount(row, label, SgSignedAmount(line, dX, cX, label))

\* if (extra) current.label = normalizeSpaces(`${current.label} ${extra}`)
SgExtendedLabel(label, extra) == IF Len(extra) > 0 THEN normalizeSpaces(label \o <<" ">> \o extra) ELSE label

\* a continuation line extends the label and may set the amount
SgContinued(row, line, dX, cX) == SgRelabelled(row, line, dX, cX, SgExtendedLabel(row.label, SgExtraLabel(line, dX)))

\* transactions.filter((tx) => tx.amount !== 0 || tx.label.length > 0)
SgKept(txs) == SelectSeq(txs, LAMBDA tx : tx.amount # Decimal(0, 0) \/ Len(tx.label) > 0)


\* '200,00'
T_A200 == <<"2", "0", "0", ",", "0", "0">>

\* rows with an amount under each column
SG_ROW_BOTH == PdfLine(<<LineItem(T_DATE1, 30), LineItem(T_DATE2, 80), LineItem(T_CARTE, 130), LineItem(T_A1234, 402), LineItem(T_A200, 498)>>)

SG_ROW_BOTH_WIDE == PdfLine(<<LineItem(T_DATE1, 30), LineItem(T_DATE2, 80), LineItem(T_CARTE, 130), LineItem(T_A700, 402), LineItem(T_A5000, 498)>>)

\* the statement lines of the model, as lists of items sorted by position
SG_HEADER == PdfLine(<<LineItem(S_DATE, 30), LineItem(S_VALEUR, 80), LineItem(T_NATURE, 130), LineItem(T_DEBIT, 400), LineItem(T_CREDIT, 500)>>)

SG_HEADER_NO_COLUMNS == PdfLine(<<LineItem(S_DATE, 30), LineItem(S_VALEUR, 80), LineItem(T_NATURE, 130)>>)

SG_ROW_DEBIT == PdfLine(<<LineItem(T_DATE1, 30), LineItem(T_DATE2, 80), LineItem(T_CARTE, 130), LineItem(T_A1234, 402)>>)

SG_ROW_CREDIT == PdfLine(<<LineItem(T_DATE1, 30), LineItem(T_DATE2, 80), LineItem(T_VIR_RECU, 130), LineItem(T_A5000, 498)>>)

SG_ROW_NO_AMOUNT == PdfLine(<<LineItem(T_DATE2, 30), LineItem(T_DATE2, 80), LineItem(T_CHEQUE, 130)>>)

SG_ROW_INLINE_AMOUNT == PdfLine(<<LineItem(T_DATE1, 30), LineItem(T_DATE1, 80), LineItem(T_REMISE, 130)>>)

SG_ROW_EMPTY == PdfLine(<<LineItem(T_DATE1, 30), LineItem(T_DATE2, 80)>>)

SG_CONTINUATION == PdfLine(<<LineItem(T_SUITE, 130), LineItem(T_A700, 402)>>)

SG_TOTAUX == PdfLine(<<LineItem(T_TOTAUX, 130), LineItem(T_A1234, 402), LineItem(T_A5000, 498)>>)

SG_SOLDE == PdfLine(<<LineItem(T_SOLDE, 130), LineItem(T_A5000, 498)>>)

SgPdfLines == {SG_HEADER, SG_HEADER_NO_COLUMNS, SG_ROW_DEBIT, SG_ROW_CREDIT, SG_ROW_NO_AMOUNT, SG_ROW_INLINE_AMOUNT, SG_ROW_EMPTY, SG_CONTINUATION, SG_TOTAUX, SG_SOLDE, SG_ROW_BOTH, SG_ROW_BOTH_WIDE}

InitSgPdf == /\ RouteIdle
             /\ SgIdle
             /\ AuxIdle
             /\ transactions = <<>>
             /\ ppc = "start"
             /\ pdfText = <<>>
             /\ now = 0
             /\ lines \in SeqsUpTo(SgPdfLines, MaxSgLines)
             /\ lineIdx = 0
             /\ thrown = ""

\* the columns are found, from the header or from the buckets, and put in order
SgPdfColumns == /\ ppc = "start"
                /\ ~SgColumns(lines).threw
                /\ debitX' = Min(SgColumns(lines).debitX, SgColumns(lines).creditX)
                /\ creditX' = Max(SgColumns(lines).debitX, SgColumns(lines).creditX)
                /\ lineIdx' = 1
                /\ ppc' = "loop"
                /\ UNCHANGED <<pdfText, now, lines, thrown, transactions, current, inTable, routeVars, auxVars>>

\* throw new Error("Format PDF non reconnu Societe Generale")
SgPdfThrow == /\ ppc = "start"
              /\ SgColumns(lines).threw
              /\ ppc' = "threw"
              /\ thrown' = "Format PDF non reconnu Societe Generale"
              /\ UNCHANGED <<pdfText, now, lines, lineIdx, transactions, sgVars, routeVars, auxVars>>

\* inTable = true; continue
SgPdfEnterTable == /\ ppc = "loop"
                   /\ lineIdx <= Len(lines)
                   /\ SgOpensTable(lines[lineIdx])
                   /\ inTable' = TRUE
                   /\ lineIdx' = lineIdx + 1
                   /\ UNCHANGED <<ppc, pdfText, now, lines, thrown, transactions, debitX, creditX, current, routeVars, auxVars>>

\* inTable = false; continue
SgPdfLeaveTable == /\ ppc = "loop"
                   /\ lineIdx <= Len(lines)
                   /\ ~SgOpensTable(lines[lineIdx])
                   /\ SgClosesTable(lines[lineIdx])
                   /\ inTable' = FALSE
                   /\ lineIdx' = lineIdx + 1
                   /\ UNCHANGED <<ppc, pdfText, now, lines, thrown, transactions, debitX, creditX, current, routeVars, auxVars>>

\* if (!inTable) continue, and the continue for the lines ignored inside the table
SgPdfSkipLine == /\ ppc = "loop"
                 /\ lineIdx <= Len(lines)
                 /\ ~SgOpensTable(lines[lineIdx])
                 /\ ~SgClosesTable(lines[lineIdx])
                 /\ (~inTable \/ SgIgnoredInTable(lines[lineIdx]))
                 /\ lineIdx' = lineIdx + 1
                 /\ UNCHANGED <<ppc, pdfText, now, lines, thrown, transactions, sgVars, routeVars, auxVars>>

\* the line is read inside the table
SgInTableRow == /\ ppc = "loop"
                /\ lineIdx <= Len(lines)
                /\ ~SgOpensTable(lines[lineIdx])
                /\ ~SgClosesTable(lines[lineIdx])
                /\ inTable
                /\ ~SgIgnoredInTable(lines[lineIdx])

\* a start line: the row being assembled is pushed and a new one is opened
SgPdfStartRow == /\ SgInTableRow
                 /\ SgStartsWithDate(lines[lineIdx])
                 /\ transactions' = IF current.isNull THEN transactions ELSE Append(transactions, SgTransaction(current))
                 /\ current' = SgNewCurrent(lines[lineIdx], debitX, creditX)
                 /\ lineIdx' = lineIdx + 1
                 /\ UNCHANGED <<ppc, pdfText, now, lines, thrown, debitX, creditX, inTable, routeVars, auxVars>>

\* if (!current) continue
SgPdfOrphanLine == /\ SgInTableRow
                   /\ ~SgStartsWithDate(lines[lineIdx])
                   /\ current.isNull
                   /\ lineIdx' = lineIdx + 1
                   /\ UNCHANGED <<ppc, pdfText, now, lines, thrown, transactions, sgVars, routeVars, auxVars>>

\* a continuation line of the row being assembled
SgPdfContinueRow == /\ SgInTableRow
                    /\ ~SgStartsWithDate(lines[lineIdx])
                    /\ ~current.isNull
                    /\ current' = SgContinued(current, lines[lineIdx], debitX, creditX)
                    /\ lineIdx' = lineIdx + 1
                    /\ UNCHANGED <<ppc, pdfText, now, lines, thrown, transactions, debitX, creditX, inTable, routeVars, auxVars>>

\* the last row is pushed and the filtered transactions are returned
SgPdfReturn == /\ ppc = "loop"
               /\ lineIdx > Len(lines)
               /\ transactions' = SgKept(IF current.isNull THEN transactions ELSE Append(transactions, SgTransaction(current)))
               /\ ppc' = "done"
               /\ UNCHANGED <<pdfText, now, lines, lineIdx, thrown, sgVars, routeVars, auxVars>>

NextSgPdf == \/ SgPdfColumns
             \/ SgPdfThrow
             \/ SgPdfEnterTable
             \/ SgPdfLeaveTable
             \/ SgPdfSkipLine
             \/ SgPdfStartRow
             \/ SgPdfOrphanLine
             \/ SgPdfContinueRow
             \/ SgPdfReturn

SpecSgPdf == InitSgPdf /\ [][NextSgPdf]_vars

(***************************************************************************)
(* Properties of the routes.                                               *)
(***************************************************************************)
\* the specific detectors a CIC false positive must not mask
SpecificBanks == {"banque-populaire", "lcl", "societe-generale", "bnp", "qonto"}

\* does needle occur in s when letter case is ignored
IncludesIgnoringCase(s, needle) == \E i \in 0..Len(s) : /\ i + Len(needle) <= Len(s)
                                                        /\ \A k \in 1..Len(needle) : ToUpperChar(s[i + k]) = ToUpperChar(needle[k])

\* every page of the document resolves: the extraction loop runs to its end
ExtractionSucceeds(doc) == doc.loadOk /\ \A i \in 1..Len(doc.pages) : doc.pages[i].outcome = "ok"

\* the request passes the four checks of the convert route
ValidConvertRequest == /\ req.file.kind = "File"
                       /\ req.bank # ""
                       /\ req.file.size <= 15 * 1024 * 1024
                       /\ req.bank \in {"bnp", "lcl", "cic", "banque-populaire", "qonto", "societe-generale"}

\* C1: detection is an ordered sweep. The detect route answers with the bank id of
\* the first parser, in the order bnp, lcl, banque-populaire, qonto, cic,
\* societe-generale, whose detect predicate holds of the extracted text, and with
\* null exactly when no predicate holds.
C1_OrderedSweep == response.kind = "detected" =>
                     LET order == <<"bnp", "lcl", "banque-populaire", "qonto", "cic", "societe-generale">>
                         hits == {i \in 1..6 : ParserDetect(order[i], text)}
                     IN IF hits = {} THEN response.bankId = "null"
                        ELSE response.bankId = order[CHOOSE i \in hits : \A j \in hits : i <= j]

\* C1 witness: two detectors hold of the text and the earlier one in the registry is returned.
C1_Witness == /\ response.kind = "detected"
              /\ LclDetect(text)
              /\ CicDetect(text)
              /\ response.bankId = "lcl"

\* C2: whenever a more specific detector (banque-populaire, lcl, societe-generale, bnp,
\* qonto) holds of the text, detection returns one of those banks whose detector
\* holds, and never cic.
C2_CicAfterSpecifics == (response.kind = "detected" /\ \E b \in SpecificBanks : ParserDetect(b, text)) =>
                          /\ response.bankId # "cic"
                          /\ response.bankId \in SpecificBanks
                          /\ ParserDetect(response.bankId, text)

\* C3: a text that contains both CIC and BNP PARIBAS, in any letter case, is detected as bnp.
C3_CicAndBnp == (response.kind = "detected" /\ IncludesIgnoringCase(text, S_CIC) /\ IncludesIgnoringCase(text, S_BNP_PARIBAS)) => response.bankId = "bnp"

\* C3 witness: a detected text with a lower-case "bnp paribas" and an upper-case "CIC".
C3_Witness == /\ response.kind = "detected"
              /\ Includes(text, F_BNP_LOWER)
              /\ Includes(text, S_CIC)
              /\ response.bankId = "bnp"

\* C4: the convert route calls a parser (and then the workbook builder) only for a
\* request with a file, a non-empty bank id, a size of at most 15 MiB and a
\* registered bank id; any other request ends in an error response, with neither a
\* parser nor the workbook builder called.
C4_ConvertGuards == req.route = "convert" =>
                      /\ (parseCalls > 0 \/ buildCalls > 0 \/ response.kind = "workbook") => ValidConvertRequest
                      /\ (pc = "done" /\ ~ValidConvertRequest) => /\ response.status = 400
                                                                 /\ response.kind \in {"error", "extraction"}
                                                                 /\ parseCalls = 0
                                                                 /\ buildCalls = 0

\* C4 witness: a convert request for an unregistered bank id has been answered with an error.
C4_Witness == /\ pc = "done"
              /\ req.route = "convert"
              /\ req.file.kind = "File"
              /\ req.file.size <= MAX_FILE_SIZE
              /\ req.bank = "hsbc"
              /\ response.kind = "error"
              /\ parseCalls = 0

\* C8: no partial success. A convert request ends either with a workbook built from
\* all the transactions the parser returned, or with a failure response that
\* carries no rows and for which no workbook was built; when the parser raises, it
\* is the latter.
C8_NoPartialSuccess == (req.route = "convert" /\ pc = "done") =>
                         \/ /\ response.kind = "workbook"
                            /\ ValidConvertRequest
                            /\ ExtractionSucceeds(req.file.doc)
                            /\ ~req.parsed.threw
                            /\ response.rows = [i \in 1..req.parsed.n |-> i]
                            /\ buildCalls = 1
                         \/ /\ response.status = 400
                            /\ response.kind \in {"error", "extraction"}
                            /\ response.rows = <<>>
                            /\ buildCalls = 0
                            /\ (~ValidConvertRequest \/ ~ExtractionSucceeds(req.file.doc) \/ req.parsed.threw)

\* C8 witness: the parser was called, extraction succeeded, the parser raised, and the
\* request ended with a failure response.
C8_Witness == /\ pc = "done"
              /\ req.route = "convert"
              /\ parseCalls = 1
              /\ ExtractionSucceeds(req.file.doc)
              /\ req.parsed.threw
              /\ response.status = 400
              /\ buildCalls = 0

\* C9: for every parser, when text extraction succeeds and parsing then fails, the error
\* carries the extracted text, and in debug mode the failure response contains it.
C9_ErrorCarriesText == (req.route = "convert" /\ pc = "done" /\ parseCalls = 1 /\ ExtractionSucceeds(req.file.doc) /\ req.parsed.threw) =>
                         /\ err.hasPdfText
                         /\ err.pdfText = FlatText(req.file.doc.pages)
                         /\ req.debug => (response.kind = "extraction" /\ Includes(response.body, FlatText(req.file.doc.pages)))

\* C10: when an extraction has returned or raised, every page whose getPage succeeded
\* has been cleaned up.
C10_PagesCleanedUp == pc \in {"extracted", "failed", "build", "routeCatch", "done"} => opened \subseteq cleaned

(***************************************************************************)
(* Properties of the parsers.                                              *)
(***************************************************************************)
\* the lines of the Qonto statement for which a transaction is due: a row start that is
\* not filtered out and whose amount is found and parses
QontoRowsDue == {i \in 1..Len(lines) : /\ ~QontoSkips(lines[i])
                                       /\ QontoAmountMatch(lines[i]).found
                                       /\ ~parseAmountFR(QontoAmountMatch(lines[i]).digits).threw}

\* the amounts that can be detected in the lines given to parseSgPdf, with either sign
SgDetectableAmounts == LET inItems == UNION {{SgAmounts(lines[l])[k].value : k \in 1..Len(SgAmounts(lines[l]))} : l \in 1..Len(lines)}
                           inText == {extractLastAmount(lines[l].text) : l \in 1..Len(lines)} \ {Null}
                       IN (inItems \cup inText) \cup {Times(a, -1) : a \in inItems \cup inText}

\* C5: every transaction a successful parse returns has a label that is non-empty after
\* normalizeSpaces (the raw line standing in when label extraction yields nothing);
\* stated of the Qonto parser.
C5_LabelNonEmpty == ppc = "done" => \A i \in 1..Len(transactions) : Len(normalizeSpaces(transactions[i].label)) > 0

\* C6: lexical errors never escape a parser. A failure of parseAmountFR on one row does
\* not make the parse fail: the parse ends normally, that row is dropped and a
\* transaction is returned for every other row; stated of the Qonto parser.
C6_LexicalErrorsStayRowLocal == /\ ppc # "threw"
                                /\ ppc = "done" => Len(transactions) = Cardinality(QontoRowsDue)

\* C7: no parser emits a transaction for a row in which no amount can be detected, with
\* neither a zero nor a placeholder amount: every amount returned is an amount detected
\* in the statement; stated of the geometry parser of Societe Generale.
C7_NoTransactionWithoutAmount == ppc = "done" => \A i \in 1..Len(transactions) : transactions[i].amount \in SgDetectableAmounts

(***************************************************************************)
(* Two parse calls in flight.  A call is parse(input) on a Buffer, in the   *)
(* shape every parser gives it: loadPdfJs, the worker path, getDocument,    *)
(* the page loop with its two awaits, then the text function, which runs   *)
(* to its end without suspending.  The text function reads the module-     *)
(* level pattern AMOUNT_FR_REGEX through findAmountsInLine; the amounts it  *)
(* finds stand for the transactions it builds from them.                   *)
(***************************************************************************)
\* the successive matches of AMOUNT_FR_REGEX in line, searched from 0-based position i
RECURSIVE AmountMatchesFrom(_, _)
AmountMatchesAt(line, j) == <<Slice(line, j, j + AmountFRLength(line, j))>> \o AmountMatchesFrom(line, j + AmountFRLength(line, j))

AmountMatchesFrom(line, i) == IF \A j \in i..(Len(line) - 1) : AmountFRLength(line, j) = 0 THEN <<>> ELSE AmountMatchesAt(line, CHOOSE j \in i..(Len(line) - 1) : AmountFRLength(line, j) > 0 /\ \A k \in i..(j - 1) : AmountFRLength(line, k) = 0)

\* a pattern with the g flag used through RegExp.prototype.exec: one match, searched
\* from the lastIndex the previous use left, which it moves to the end of the match
ExecMatch(line, regexLastIndex) == LET starts == {i \in regexLastIndex..(Len(line) - 1) : AmountFRLength(line, i) > 0}
                                       first == CHOOSE i \in starts : \A j \in starts : i <= j
                                   IN IF starts = {} THEN [matches |-> <<>>, lastIndex |-> 0]
                                      ELSE [matches |-> <<Slice(line, first, first + AmountFRLength(line, first))>>, lastIndex |-> first + AmountFRLength(line, first)]

\* line.match(AMOUNT_FR_REGEX): String.prototype.match with a g pattern sets lastIndex
\* to 0, collects every match, and leaves lastIndex at 0 after the search that fails
GlobalMatch(line, regexLastIndex) == [matches |-> AmountMatchesFrom(line, 0), lastIndex |-> 0]

\* findAmountsInLine
findAmountsInLine(line) == GlobalMatch(line, 0).matches

\* pathToFileURL(workerPath).toString(), the same in every parser
WORKER_SRC == "file:///node_modules/pdfjs-dist/legacy/build/pdf.worker.min.mjs"

\* the globals loadPdfJs installs when they are missing
Polyfills == {"DOMMatrix", "ImageData", "Path2D"}

\* '12,50'
P_ONE == <<"1", "2", ",", "5", "0">>
\* '1 400,00 7,00'
P_TWO == <<"1", " ", "4", "0", "0", ",", "0", "0", " ", "7", ",", "0", "0">>
\* 'VIR'
P_NONE == <<"V", "I", "R">>

\* the item lists of the pages of the statements the two calls are given
CallPageItems == {<<TextItem(P_ONE)>>, <<TextItem(P_TWO), MarkedContent>>, <<TextItem(P_NONE)>>}

CallIds == {1, 2}

\* a call at its entry: pdf, text and pageNum are its locals; overlapped records that
\* the call has resumed while the other call was suspended between its entry and its end
NewCall(pages) == [cpc |-> "start", pages |-> pages, pageNum |-> 0, text |-> <<>>, result |-> <<>>, overlapped |-> FALSE]

\* what a parse call leaves alone
callRest == <<routeVars, transactions, ppc, pdfText, now, lines, lineIdx, thrown, sgVars, bnpVars, libVars, bookVars, cicVars, lclVars, uiVars>>

InitCalls == /\ RouteIdle
             /\ LclIdle
             /\ UiIdle
             /\ SgIdle
             /\ CicIdle
             /\ TextIdle
             /\ transactions = <<>>
             /\ BnpIdle
             /\ LibIdle
             /\ BookIdle
             /\ calls \in {[i \in CallIds |-> NewCall(d[i])] : d \in [CallIds -> SeqsUpTo(CallPageItems, MaxPages)]}
             /\ globalAny \in {{}, Polyfills}
             /\ workerSrc \in {"", WORKER_SRC}
             /\ lastIndex = 0

\* the other call is suspended at one of its awaits
OtherSuspended(i) == \E j \in CallIds \ {i} : calls[j].cpc \notin {"start", "done"}

\* call i runs up to its next await, or to its end, and is then as c says
Resume(i, c) == calls' = [calls EXCEPT ![i] = [c EXCEPT !.overlapped = @ \/ OtherSuspended(i)]]

\* what the text function returns, and where it leaves the pattern
TextResult(text0, regexLastIndex) == GlobalMatch(text0, regexLastIndex)

\* the call returns parseText(text)
CallReturn(i, text0) == /\ Resume(i, [calls[i] EXCEPT !.cpc = "done", !.text = text0, !.result = TextResult(text0, lastIndex).matches])
                        /\ lastIndex' = TextResult(text0, lastIndex).lastIndex

\* loadPdfJs up to its import(): each missing global is installed
CallLoadPdfJs(i) == /\ calls[i].cpc = "start"
                    /\ globalAny' = globalAny \cup Polyfills
                    /\ Resume(i, [calls[i] EXCEPT !.cpc = "import"])
                    /\ UNCHANGED <<workerSrc, lastIndex, callRest>>

\* the import resolves: workerSrc is assigned and getDocument is called
CallGetDocument(i) == /\ calls[i].cpc = "import"
                      /\ workerSrc' = WORKER_SRC
                      /\ Resume(i, [calls[i] EXCEPT !.cpc = "load"])
                      /\ UNCHANGED <<globalAny, lastIndex, callRest>>

\* loadingTask.promise resolves to a document with pages: text = "", the loop is entered
CallLoaded(i) == /\ calls[i].cpc = "load"
                 /\ Len(calls[i].pages) > 0
                 /\ Resume(i, [calls[i] EXCEPT !.cpc = "getPage", !.pageNum = 1, !.text = <<>>])
                 /\ UNCHANGED <<globalAny, workerSrc, lastIndex, callRest>>

\* loadingTask.promise resolves to a document without pages: the loop is not entered
CallLoadedEmpty(i) == /\ calls[i].cpc = "load"
                      /\ Len(calls[i].pages) = 0
                      /\ CallReturn(i, <<>>)
                      /\ UNCHANGED <<globalAny, workerSrc, callRest>>

\* pdf.getPage(pageNum) resolves
CallGetPage(i) == /\ calls[i].cpc = "getPage"
                  /\ Resume(i, [calls[i] EXCEPT !.cpc = "getTextContent"])
                  /\ UNCHANGED <<globalAny, workerSrc, lastIndex, callRest>>

\* text after the page's items and "\n" are added to it
CallText(cs, i) == cs[i].text \o PageText(cs[i].pages[cs[i].pageNum]) \o <<"\n">>

\* page.getTextContent() resolves on a page that is not the last
CallGetTextContent(i) == /\ calls[i].cpc = "getTextContent"
                         /\ calls[i].pageNum < Len(calls[i].pages)
                         /\ Resume(i, [calls[i] EXCEPT !.cpc = "getPage", !.pageNum = @ + 1, !.text = CallText(calls, i)])
                         /\ UNCHANGED <<globalAny, workerSrc, lastIndex, callRest>>

\* page.getTextContent() resolves on the last page: the loop ends and the text function runs
CallLastTextContent(i) == /\ calls[i].cpc = "getTextContent"
                          /\ calls[i].pageNum = Len(calls[i].pages)
                          /\ CallReturn(i, CallText(calls, i))
                          /\ UNCHANGED <<globalAny, workerSrc, callRest>>

CallStep(i) == \/ CallLoadPdfJs(i)
               \/ CallGetDocument(i)
               \/ CallLoaded(i)
               \/ CallLoadedEmpty(i)
               \/ CallGetPage(i)
               \/ CallGetTextContent(i)
               \/ CallLastTextContent(i)

NextCalls == \E i \in CallIds : CallStep(i)

SpecCalls == InitCalls /\ [][NextCalls]_vars

\* what a call given these pages returns when it runs alone in a module just loaded
Alone(pages) == TextResult(FlatText([p \in 1..Len(pages) |-> [items |-> pages[p]]]), 0).matches

\* C11: parse calls are safe to run concurrently. For any two calls interleaved at their
\* awaits, each returns what it returns when run alone, and the state they share is
\* not changed in a way that shows: the worker path, once assigned, keeps its one
\* value, the installed globals stay installed, the pattern is left where it was.
C11_ConcurrentCallsIndependent == /\ \A i \in CallIds : calls[i].cpc = "done" => calls[i].result = Alone(calls[i].pages)
                                  /\ (\E i \in CallIds : calls[i].cpc \notin {"start", "import"}) => workerSrc = WORKER_SRC
                                  /\ (\E i \in CallIds : calls[i].cpc # "start") => globalAny = Polyfills
                                  /\ lastIndex = 0

\* both calls have returned amounts, of different statements, and each of them resumed
\* while the other was suspended
C11_Witness == /\ \A i \in CallIds : calls[i].cpc = "done" /\ Len(calls[i].result) > 0 /\ calls[i].overlapped
               /\ calls[1].result # calls[2].result
               /\ \E i \in CallIds : Len(calls[i].pages) > 1

(***************************************************************************)
(* buildWorkbook (excel.ts): the loop over the transactions, one row each, *)
(* then the TOTAL row.                                                     *)
(***************************************************************************)
RECURSIVE Pow10(_)
Pow10(k) == IF k = 0 THEN 1 ELSE 10 * Pow10(k - 1)

\* Math.abs
MathAbs(value) == [value EXCEPT !.m = IF @ < 0 THEN -@ ELSE @]

\* Math.round(value * 100): the nearest integer, a half going up.  The product is
\* taken exactly; a double differs from it only when value * 100 lies next to a half,
\* which no amount of the model does
MathRoundTimes100(value) == (2 * 100 * value.m + Pow10(value.k)) \div (2 * Pow10(value.k))

\* a variant of debitCents that does not look at the sign
debitCentsOfAny(amount) == MathRoundTimes100(MathAbs(amount))

\* tx.amount < 0 ? Math.round(Math.abs(tx.amount) * 100) : 0
debitCents(amount) == IF amount.m < 0 THEN MathRoundTimes100(MathAbs(amount)) ELSE 0

\* tx.amount > 0 ? Math.round(tx.amount * 100) : 0
creditCents(amount) == IF amount.m > 0 THEN MathRoundTimes100(amount) ELSE 0

\* cents ? cents / 100 : null
CentsCell(cents) == IF cents # 0 THEN Decimal(cents, 2) ELSE Null

\* `${n}` for a natural number
RECURSIVE NatString(_)
NatString(n) == IF n < 10 THEN <<DigitChars[n + 1]>> ELSE NatString(n \div 10) \o <<DigitChars[(n % 10) + 1]>>

\* s.padStart(2, "0")
PadStart2(s) == IF Len(s) < 2 THEN <<"0">> \o s ELSE s

\* formatDateSlash of a date
formatDateSlash(date) == PadStart2(NatString(date.day)) \o <<"/">> \o PadStart2(NatString(date.month)) \o <<"/">> \o NatString(date.year)

\* the row added for a transaction; piece is getPieceNumber, the month
TransactionRow(tx) == [dateOperation |-> formatDateSlash(tx.dateOperation), piece |-> <<tx.dateOperation.month>>, label |-> tx.label, debit |-> CentsCell(debitCents(tx.amount)), credit |-> CentsCell(creditCents(tx.amount))]

\* the last row: the label TOTAL and the two totals divided by 100
TotalRow(debit, credit) == [dateOperation |-> <<>>, piece |-> <<>>, label |-> <<"T", "O", "T", "A", "L">>, debit |-> Decimal(debit, 2), credit |-> Decimal(credit, 2)]

\* amounts of transactions: 12.5 and 1400 to pay or to receive, nothing, 1.15, and
\* amounts below the cent and between two cents
BookAmounts == {Decimal(-1250, 2), Decimal(140000, 2), Decimal(0, 0), Decimal(-115, 2), Decimal(7, 0), Decimal(-4, 3), Decimal(6, 3), Decimal(-12346, 3)}

BookDates == {[year |-> 2025, month |-> 3, day |-> 7], [year |-> 2024, month |-> 12, day |-> 31]}

BookTransactions == {[dateOperation |-> d, dateValeur |-> d, label |-> F_LOYER, amount |-> a] : d \in BookDates, a \in BookAmounts}

\* what buildWorkbook leaves alone
bookRest == <<routeVars, transactions, pdfText, now, lines, thrown, sgVars, bnpVars, libVars, callVars, cicVars, lclVars, uiVars>>

InitBook == /\ RouteIdle
            /\ LclIdle
            /\ UiIdle
            /\ SgIdle
            /\ CicIdle
            /\ BnpIdle
            /\ LibIdle
            /\ CallsIdle
            /\ ppc = "rows"
            /\ pdfText = <<>>
            /\ now = 0
            /\ lines = <<>>
            /\ thrown = ""
            /\ transactions \in SeqsUpTo(BookTransactions, MaxTx)
            /\ lineIdx = 0
            /\ totalDebit = 0
            /\ totalCredit = 0
            /\ worksheet = <<>>

\* one turn of the loop: the cents of the transaction, the totals, the row
BookAddRow == /\ ppc = "rows"
              /\ lineIdx < Len(transactions)
              /\ lineIdx' = lineIdx + 1
              /\ totalDebit' = totalDebit + debitCents(transactions[lineIdx + 1].amount)
              /\ totalCredit' = totalCredit + creditCents(transactions[lineIdx + 1].amount)
              /\ worksheet' = Append(worksheet, TransactionRow(transactions[lineIdx + 1]))
              /\ UNCHANGED <<ppc, bookRest>>

\* after the loop: the TOTAL row, and the workbook is written
BookAddTotal == /\ ppc = "rows"
                /\ lineIdx = Len(transactions)
                /\ worksheet' = Append(worksheet, TotalRow(totalDebit, totalCredit))
                /\ ppc' = "done"
                /\ UNCHANGED <<lineIdx, totalDebit, totalCredit, bookRest>>

NextBook == BookAddRow \/ BookAddTotal

SpecBook == InitBook /\ [][NextBook]_vars

\* the sum of round(|amount| * 100) over the transactions whose amount has the sign
RECURSIVE SumOfCents(_, _)
SumOfCents(txs, sign) == IF txs = <<>> THEN 0
                         ELSE (IF Head(txs).amount.m * sign > 0 THEN MathRoundTimes100(MathAbs(Head(txs).amount)) ELSE 0) + SumOfCents(Tail(txs), sign)

\* C12: the builder accumulates the totals in integer cents. The debit total it reports
\* is the sum over the negative amounts of round(|amount| * 100), the credit total the
\* sum over the positive amounts of round(amount * 100), each divided by 100; a
\* transaction counts in one of the two totals only, and in neither when it is zero.
C12_TotalsInCents == /\ totalDebit = SumOfCents(SubSeq(transactions, 1, lineIdx), -1)
                     /\ totalCredit = SumOfCents(SubSeq(transactions, 1, lineIdx), 1)
                     /\ \A i \in 1..lineIdx : /\ worksheet[i].debit = Null \/ worksheet[i].credit = Null
                                              /\ transactions[i].amount.m = 0 => worksheet[i].debit = Null /\ worksheet[i].credit = Null
                                              /\ transactions[i].amount.m > 0 => worksheet[i].debit = Null
                                              /\ transactions[i].amount.m < 0 => worksheet[i].credit = Null
                     /\ ppc = "done" => /\ worksheet[Len(worksheet)].debit = Decimal(SumOfCents(transactions, -1), 2)
                                        /\ worksheet[Len(worksheet)].credit = Decimal(SumOfCents(transactions, 1), 2)

\* a workbook of a debit, a credit and nothing in between is finished, and both totals count
C12_Witness == /\ ppc = "done"
               /\ Len(transactions) = MaxTx
               /\ totalDebit > 0
               /\ totalCredit > 0
               /\ \E i \in 1..Len(transactions) : transactions[i].amount.k = 3

(***************************************************************************)
(* Calls of the functions of utils.ts, each on an argument of its own.     *)
(***************************************************************************)
\* /\d{2}\.\d{2}\.\d{2}/ matches at 0-based position i
IsDotDate(s, i) == /\ i + 8 <= Len(s)
                   /\ \A k \in {1, 2, 4, 5, 7, 8} : IsDigit(s[i + k])
                   /\ s[i + 3] = "."
                   /\ s[i + 6] = "."

\* input.match(DATE_FR_REGEX): the 0-based position of the first match, -1 when none
DateFRIndex(s) == LET starts == {i \in 0..(Len(s) - 1) : IsDotDate(s, i)}
                  IN IF starts = {} THEN -1 ELSE CHOOSE i \in starts : \A j \in starts : i <= j

\* the date of the token dd.mm.yy: Date.UTC(Number(`20${year}`), Number(month) - 1, Number(day))
DateOfToken(token) == DateUTC(ToNat(<<"2", "0">> \o SubSeq(token, 7, 8)), ToNat(SubSeq(token, 4, 5)) - 1, ToNat(SubSeq(token, 1, 2)))

\* no date
NoDate == [year |-> 1970, month |-> 1, day |-> 1]

\* the result of parseDateFR when the pattern matches at position i, or nowhere (-1)
DateResult(s, i) == IF i = -1 THEN [threw |-> TRUE, value |-> NoDate] ELSE [threw |-> FALSE, value |-> DateOfToken(Slice(s, i, i + 8))]

\* parseDateFR: the date, or threw when it raises Invalid date
parseDateFR(s) == DateResult(s, DateFRIndex(s))

\* hasDateToken
hasDateToken(line) == DateFRIndex(line) # -1

\* groups of thousands in the amounts given to parseAmountFR
MaxGroups == 2
\* digits in these amounts, cents included: their value in cents fits 32 bits
MaxAmountDigits == 9
\* characters in the lines given to normalizeSpaces
MaxLineLen == 4

\* the strings of the French amount form: an optional '-', 1 to 3 digits, groups of a
\* separator and 3 digits, a comma, 2 digits
FrenchAmounts == LET signs == {<<>>, <<"-">>}
                     leads == {<<"7">>, <<"1", "2">>, <<"0", "0", "7">>}
                     groups == {<<sep>> \o ds : sep \in {" ", NBSP, "."}, ds \in {<<"4", "0", "0">>, <<"2", "3", "4">>}}
                     cents == {<<"0", "0">>, <<"5", "6">>}
                 IN {s \in {sg \o ld \o Concat(gs) \o <<",">> \o ct : sg \in signs, ld \in leads, gs \in SeqsUpTo(groups, MaxGroups), ct \in cents} : Len(SelectSeq(s, IsDigit)) <= MaxAmountDigits}

\* amounts that are not of the French form
OtherAmounts == {<<"1", "2", ".", "5">>, <<"1", "2">>, <<",">>, <<"a", "b", "c">>, <<"1", ",", "2", ",", "3">>, <<>>}

\* a date token with the separator sep and the year written as year
DateTokens(sep, years) == {dd \o <<sep>> \o mm \o <<sep>> \o yy : dd \in {<<"0", "1">>, <<"1", "5">>, <<"2", "8">>}, mm \in {<<"0", "1">>, <<"0", "2">>, <<"1", "2">>}, yy \in years}

ShortYears == {<<"0", "0">>, <<"2", "4">>, <<"9", "9">>}

LongYears == {<<"2", "0">> \o yy : yy \in ShortYears}

\* dd.mm.yy
DotDates == DateTokens(".", ShortYears)

\* dd/mm/yy and dd/mm/yyyy
SlashDates == DateTokens("/", ShortYears) \cup DateTokens("/", LongYears)

\* strings that hold no date of these forms
NoDates == {<<>>, <<"1", "5", "-", "0", "3", "-", "2", "4">>, <<"1", ".", "3", ".", "2", "4">>, <<"1", "5", "0", "3", "2", "4">>, <<"1", "5", " ", "m", "a", "r", "s">>}

\* every line of at most MaxLineLen characters, of a letter and white space of each kind
SpacedLines == SeqsUpTo({"a", " ", NBSP, "\t", "\n"}, MaxLineLen)

LibInputs == FrenchAmounts \cup OtherAmounts \cup DotDates \cup SlashDates \cup NoDates \cup SpacedLines

\* what a call gave: the function called, whether it raised, and its value
Gave(fn, threw, value) == [fn |-> fn, threw |-> threw, value |-> value]

libRest == <<routeVars, transactions, pdfText, now, lines, lineIdx, thrown, sgVars, bnpVars, bookVars, callVars, cicVars, lclVars, uiVars>>

InitLib == /\ RouteIdle
           /\ LclIdle
           /\ UiIdle
           /\ SgIdle
           /\ CicIdle
           /\ BnpIdle
           /\ BookIdle
           /\ CallsIdle
           /\ transactions = <<>>
           /\ ppc = "call"
           /\ pdfText = <<>>
           /\ now = 0
           /\ lines = <<>>
           /\ lineIdx = 0
           /\ thrown = ""
           /\ input \in LibInputs
           /\ output = <<>>

\* parseAmountFR(input)
CallParseAmountFR == /\ ppc = "call"
                     /\ ppc' = "done"
                     /\ output' = Gave("parseAmountFR", parseAmountFR(input).threw, parseAmountFR(input).value)
                     /\ UNCHANGED <<input, libRest>>

\* parseDateFR(input)
CallParseDateFR == /\ ppc = "call"
                   /\ ppc' = "done"
                   /\ output' = Gave("parseDateFR", parseDateFR(input).threw, parseDateFR(input).value)
                   /\ UNCHANGED <<input, libRest>>

\* normalizeSpaces(input)
CallNormalizeSpaces == /\ ppc = "call"
                       /\ ppc' = "done"
                       /\ output' = Gave("normalizeSpaces", FALSE, normalizeSpaces(input))
                       /\ UNCHANGED <<input, libRest>>

\* normalizeSpaces of what normalizeSpaces(input) gave
CallNormalizeSpacesAgain == /\ ppc = "done"
                            /\ output.fn = "normalizeSpaces"
                            /\ ppc' = "again"
                            /\ output' = Gave("normalizeSpaces", FALSE, normalizeSpaces(output.value))
                            /\ UNCHANGED <<input, libRest>>

NextLib == CallParseAmountFR \/ CallParseDateFR \/ CallNormalizeSpaces \/ CallNormalizeSpacesAgain

SpecLib == InitLib /\ [][NextLib]_vars

\* the number whose value in cents is the digits of s read as one number, negated when
\* s starts with '-'
CentsRead(s) == Decimal((IF s[1] = "-" THEN -1 ELSE 1) * ToNat(SelectSeq(s, IsDigit)), 2)

\* C13: for every string of the French amount form (an optional '-', 1 to 3 digits, groups
\* of 3 digits after a space, a non-breaking space or a '.', then ',' and 2 digits),
\* parseAmountFR returns the number whose value in cents is all its digits read as one
\* number, negated when the '-' is there.
C13_FrenchAmountValue == (ppc = "done" /\ output.fn = "parseAmountFR" /\ input \in FrenchAmounts) => (~output.threw /\ output.value = CentsRead(input))

\* a negative amount with two groups, one after a dot and one after a non-breaking space, was parsed
C13_Witness == /\ ppc = "done"
               /\ output.fn = "parseAmountFR"
               /\ input \in FrenchAmounts
               /\ input[1] = "-"
               /\ Includes(input, <<".">>)
               /\ Includes(input, <<NBSP>>)
               /\ output.value.m < -100000

\* the date a token of one of the three forms names
NamedDate(s) == [year |-> IF Len(s) = 8 THEN 2000 + ToNat(SubSeq(s, 7, 8)) ELSE ToNat(SubSeq(s, 7, 10)), month |-> ToNat(SubSeq(s, 4, 5)), day |-> ToNat(SubSeq(s, 1, 2))]

\* C14: parseDateFR accepts the canonical form dd.mm.yy and the slash forms dd/mm/yy and
\* dd/mm/yyyy: for every day, month and two-digit year, parseDateFR("dd.mm.yy") and
\* parseDateFR("dd/mm/yy") both return UTC midnight of year 2000+yy, month mm, day dd;
\* an input that matches none of these forms fails with an invalid-date error.
C14_DotAndSlashDates == (ppc = "done" /\ output.fn = "parseDateFR") => /\ input \in DotDates \cup SlashDates => (~output.threw /\ output.value = NamedDate(input))
                                                                       /\ input \in NoDates => output.threw

\* C15: normalizeSpaces is idempotent, and what it returns has no white space at either
\* end, no non-breaking space and no two white-space characters in a row.
C15_NormalizeSpacesIdempotent == (ppc \in {"done", "again"} /\ output.fn = "normalizeSpaces") => /\ ppc = "again" => output.value = normalizeSpaces(input)
                                                                                                 /\ output.value # <<>> => ~IsSpace(output.value[1]) /\ ~IsSpace(output.value[Len(output.value)])
                                                                                                 /\ ~Includes(output.value, <<NBSP>>)
                                                                                                 /\ \A i \in 1..(Len(output.value) - 1) : ~(IsSpace(output.value[i]) /\ IsSpace(output.value[i + 1]))

\* a line that starts with a space and holds a non-breaking space between two letters
\* was normalized twice
C15_Witness == /\ ppc = "again"
               /\ Len(input) = MaxLineLen
               /\ input[1] = " "
               /\ Includes(input, <<"a", NBSP, "a">>)
               /\ output.value = <<"a", " ", "a">>

(***************************************************************************)
(* The BNP Paribas parser (bnp.ts): extractTableText, the lines of the     *)
(* table, parseStartLine and the loop of parseBnpText.                     *)
(***************************************************************************)
\* U+00C9, the capital E with an acute accent
E_ACUTE == "Eacute"

\* END_MARKERS of bnp.ts
BNP_END_MARKERS == <<<<"T", "O", "T", "A", "L", " ", "D", "E", "S", " ", "O", "P", "E", "R", "A", "T", "I", "O", "N", "S">>, <<"S", "O", "L", "D", "E", " ", "C", "R", "E", "D", "I", "T", "E", "U", "R">>, <<"S", "O", "L", "D", "E", " ", "D", E_ACUTE, "B", "I", "T", "E", "U", "R">>, <<"S", "O", "L", "D", "E", " ", "A", "U">>, <<"A", "N", "C", "I", "E", "N", " ", "S", "O", "L", "D", "E">>>>

\* IGNORED_LINE_PATTERNS but the page pattern: the words of each pattern, which \s+ separates
BNP_IGNORED_WORDS == <<<<<<"S", "O", "U", "S">>, <<"T", "O", "T", "A", "L">>>>, <<<<"T", "O", "T", "A", "L">>, <<"D", "E", "S">>, <<"O", "P", "E", "R", "A", "T", "I", "O", "N", "S">>>>, <<<<"S", "O", "L", "D", "E">>, <<"C", "R", "E", "D", "I", "T", "E", "U", "R">>>>, <<<<"S", "O", "L", "D", "E">>, <<"D", "E", "B", "I", "T", "E", "U", "R">>>>, <<<<"S", "O", "L", "D", "E">>, <<"A", "U">>>>, <<<<"A", "N", "C", "I", "E", "N">>, <<"S", "O", "L", "D", "E">>>>, <<<<"B", "N", "P">>, <<"P", "A", "R", "I", "B", "A", "S">>, <<"S", "A">>>>, <<<<"R", "E", "L", "E", "V", "E">>, <<"D", "E">>, <<"V", "O", "T", "R", "E">>, <<"C", "O", "M", "P", "T", "E">>>>, <<<<"S", "O", "R", "P", "S", "I", "T">>>>>>

\* SECTION_KEYWORDS of bnp.ts
BNP_SECTION_KEYWORDS == <<<<"V", "I", "R", "E", "M", "E", "N", "T", "S", " ", "R", "E", "C", "U", "S">>, <<"V", "I", "R", "E", "M", "E", "N", "T", "S", " ", "E", "M", "I", "S">>, <<"P", "R", "E", "L", "E", "V", "E", "M", "E", "N", "T", "S", ",", " ", "A", "M", "O", "R", "T", "I", "S", "S", "E", "M", "E", "N", "T", "S", " ", "D", "E", " ", "P", "R", "E", "T", "S">>, <<"A", "U", "T", "R", "E", "S", " ", "O", "P", "E", "R", "A", "T", "I", "O", "N", "S", " ", "D", "E", "B", "I", "T">>, <<"R", "E", "M", "I", "S", "E", "S", " ", "D", "E", " ", "C", "A", "R", "T", "E", "S">>, <<"C", "H", "E", "Q", "U", "E", "S", " ", "E", "M", "I", "S">>, <<"P", "A", "I", "E", "M", "E", "N", "T", "S", " ", "P", "A", "R", " ", "C", "A", "R", "T", "E", "S">>>>

\* the literal alternatives of the pattern of parseBnpText that puts footers on a line of their own, in upper case
BNP_FOOTERS == <<<<"S", "O", "U", "S", " ", "T", "O", "T", "A", "L">>, <<"T", "O", "T", "A", "L", " ", "D", "E", "S", " ", "O", "P", "E", "R", "A", "T", "I", "O", "N", "S">>, <<"S", "O", "L", "D", "E", " ", "C", "R">>, <<"S", "O", "L", "D", "E", " ", "C", "R", "E", "D">>, <<"S", "O", "L", "D", "E", " ", "D", "E", "B">>, <<"S", "O", "L", "D", "E", " ", "A", "U">>, <<"A", "N", "C", "I", "E", "N", " ", "S", "O", "L", "D", "E">>, <<"R", "E", "L", "E", "V", "E", " ", "D", "E", " ", "V", "O", "T", "R", "E", " ", "C", "O", "M", "P", "T", "E">>, <<"B", "N", "P", " ", "P", "A", "R", "I", "B", "A", "S", " ", "S", "A">>>>

\* creditHints of inferAmountSign
BNP_CREDIT_HINTS == <<<<"R", "E", "C", "U", "S">>, <<"C", "R", "E", "D", "I", "T">>, <<"V", "E", "R", "S", "E", "M", "E", "N", "T">>, <<"R", "E", "M", "I", "S", "E">>, <<"I", "N", "T", "E", "R", "E", "T", "S">>, <<"R", "E", "M", "B", "O", "U", "R", "S", "E", "M", "E", "N", "T">>, <<"R", "E", "M", "I", "S", "E", "S", " ", "D", "E", " ", "C", "A", "R", "T", "E", "S">>>>

\* debitHints of inferAmountSign
BNP_DEBIT_HINTS == <<<<"E", "M", "I", "S">>, <<"P", "R", "E", "L", "E", "V", "E", "M", "E", "N", "T", "S">>, <<"P", "R", "E", "L", "E", "V", "E", "M", "E", "N", "T">>, <<"D", "E", "B", "I", "T">>, <<"A", "M", "O", "R", "T", "I", "S", "S", "E", "M", "E", "N", "T", "S">>, <<"F", "R", "A", "I", "S">>, <<"C", "A", "R", "T", "E">>, <<"R", "E", "T", "R", "A", "I", "T">>, <<"C", "H", "E", "Q", "U", "E", "S", " ", "E", "M", "I", "S">>, <<"P", "A", "I", "E", "M", "E", "N", "T", "S", " ", "P", "A", "R", " ", "C", "A", "R", "T", "E", "S">>, <<"P", "A", "I", "E", "M", "E", "N", "T", " ", "P", "A", "R", " ", "C", "A", "R", "T", "E", "S">>>>

\* the sections in which parseStartLine forces the amount to be negative
BNP_DEBIT_SECTIONS == <<<<"C", "H", "E", "Q", "U", "E", "S", " ", "E", "M", "I", "S">>, <<"P", "A", "I", "E", "M", "E", "N", "T", "S", " ", "P", "A", "R", " ", "C", "A", "R", "T", "E", "S">>, <<"P", "A", "I", "E", "M", "E", "N", "T", " ", "P", "A", "R", " ", "C", "A", "R", "T", "E", "S">>, <<"P", "R", "E", "L", "E", "V", "E", "M", "E", "N", "T", "S">>, <<"V", "I", "R", "E", "M", "E", "N", "T", "S", " ", "E", "M", "I", "S">>, <<"A", "U", "T", "R", "E", "S", " ", "O", "P", "E", "R", "A", "T", "I", "O", "N", "S", " ", "D", "E", "B", "I", "T">>>>

\* the sections in which parseStartLine forces the amount to be positive
BNP_CREDIT_SECTIONS == <<<<"R", "E", "M", "I", "S", "E", "S", " ", "D", "E", " ", "C", "A", "R", "T", "E", "S">>, <<"V", "I", "R", "E", "M", "E", "N", "T", "S", " ", "R", "E", "C", "U", "S">>>>

\* START_MARKER and START_MARKER.replace(" ", "")
BNP_START_MARKERS == <<<<"D", "A", "T", "E", " ", "C", "O", "M", "P", "T", "A", "B", "L", "E">>, <<"D", "A", "T", "E", "C", "O", "M", "P", "T", "A", "B", "L", "E">>>>

\* the second pair of words of the header line of the table
BNP_VALUE_MARKERS == <<<<"D", "A", "T", "E", " ", "D", "E", " ", "V", "A", "L", "E", "U", "R">>, <<"D", "A", "T", "E", " ", "D", "E", "V", "A", "L", "E", "U", "R">>>>

\* does needle, written in upper case, occur at 0-based position i of s, case ignored
OccursAtIgnoringCase(s, needle, i) == /\ i + Len(needle) <= Len(s)
                                      /\ \A k \in 1..Len(needle) : ToUpperChar(s[i + k]) = needle[k]

\* the length of the first of the literals from the k-th on that occurs at position i
\* of s, whose character there is c in upper case; 0 when none does
RECURSIVE LiteralLengthFrom(_, _, _, _, _)
LiteralLengthFrom(s, i, literals, k, c) == IF k > Len(literals) THEN 0
                                           ELSE IF literals[k][1] = c /\ OccursAtIgnoringCase(s, literals[k], i) THEN Len(literals[k])
                                           ELSE LiteralLengthFrom(s, i, literals, k + 1, c)

\* the length of the first of the literals that occurs at position i of s, 0 when none does
LiteralLength(s, i, literals) == IF i < Len(s) THEN LiteralLengthFrom(s, i, literals, 1, ToUpperChar(s[i + 1])) ELSE 0

\* the length of the match of /P\.\s*\d+\/\d+/i at position i of s, given the lengths
\* of the white space and of the first number; 0 when there is none
PageMarkTail(s, i, ws, d1) == IF /\ d1 > 0
                                 /\ i + 2 + ws + d1 < Len(s)
                                 /\ s[i + 2 + ws + d1 + 1] = "/"
                                 /\ RunLength(s, i + 2 + ws + d1 + 1, Digits) > 0
                              THEN 2 + ws + d1 + 1 + RunLength(s, i + 2 + ws + d1 + 1, Digits) ELSE 0

PageMarkNumbers(s, i, ws) == PageMarkTail(s, i, ws, RunLength(s, i + 2 + ws, Digits))

PageMarkLength(s, i) == IF i + 2 <= Len(s) /\ s[i + 1] \in {"P", "p"} /\ s[i + 2] = "." THEN PageMarkNumbers(s, i, RunLength(s, i + 2, WhiteSpace)) ELSE 0

\* /(\d{2}\.\d{2}\.\d{2})(?=\s+[\p{L}*])/ matches at position i of s
IsRowDate(s, i, ws) == /\ IsDotDate(s, i)
                       /\ ws > 0
                       /\ i + 8 + ws < Len(s)
                       /\ (IsLower(s[i + 8 + ws + 1]) \/ IsUpper(s[i + 8 + ws + 1]) \/ s[i + 8 + ws + 1] = "*")

\* the length of what the footer pattern matches at position i of s, n being the
\* length of the literal alternative that matches there
BnpFooterLength(s, i, n) == IF n > 0 THEN n ELSE PageMarkLength(s, i)

\* the length of what one of the three patterns of parseBnpText matches at position i
\* of s: a date before a label, a footer, a section heading
BnpBreakLength(s, i, kind) == CASE kind = "date" -> IF IsRowDate(s, i, RunLength(s, i + 8, WhiteSpace)) THEN 8 ELSE 0
                                [] kind = "footer" -> BnpFooterLength(s, i, LiteralLength(s, i, BNP_FOOTERS))
                                [] kind = "section" -> LiteralLength(s, i, BNP_SECTION_KEYWORDS)

\* the positions from i on at which the pattern matches
BreakStarts(s, i, kind) == {j \in i..(Len(s) - 1) : BnpBreakLength(s, j, kind) > 0}

\* s.replace(pattern, "\n$1") from position i on: the scan resumes after each match
RECURSIVE BreakBefore(_, _, _)
BreakStep(s, i, kind, j, n) == Slice(s, i, j) \o <<"\n">> \o Slice(s, j, j + n) \o BreakBefore(s, j + n, kind)

BreakAt(s, i, kind, starts) == IF starts = {} THEN SliceFrom(s, i) ELSE BreakStep(s, i, kind, CHOOSE j \in starts : \A other \in starts : j <= other, BnpBreakLength(s, CHOOSE j \in starts : \A other \in starts : j <= other, kind))

BreakBefore(s, i, kind) == IF i >= Len(s) THEN <<>> ELSE BreakAt(s, i, kind, BreakStarts(s, i, kind))

\* the position of the first end marker in upperSliced, its length when there is none
BnpEndIndex(upperSliced) == LET found == {IndexOf(upperSliced, BNP_END_MARKERS[k]) : k \in 1..Len(BNP_END_MARKERS)} \ {-1}
                            IN IF found = {} THEN Len(upperSliced) ELSE CHOOSE i \in found : \A j \in found : i <= j

\* pdfText from the end of the start marker to the first end marker
BnpSliced(sliced) == Slice(sliced, 0, BnpEndIndex(ToUpperCase(sliced)))

\* a variant of BnpTableFrom that takes the whole text when the start marker is missing
BnpTableOrText(pdfText0, startIndex, startIndexCompact) == IF startIndex = -1 /\ startIndexCompact = -1 THEN pdfText0 ELSE BnpSliced(SliceFrom(pdfText0, Max(startIndex, startIndexCompact)))

\* extractTableText once the two positions of the start marker are known
BnpTableFrom(pdfText0, startIndex, startIndexCompact) == IF startIndex = -1 /\ startIndexCompact = -1 THEN <<>>
                                                         ELSE IF startIndex # -1 /\ (startIndexCompact = -1 \/ startIndex <= startIndexCompact) THEN BnpSliced(SliceFrom(pdfText0, startIndex + Len(BNP_START_MARKERS[1])))
                                                         ELSE BnpSliced(SliceFrom(pdfText0, startIndexCompact + Len(BNP_START_MARKERS[2])))

\* upperText.indexOf(marker)
BnpStartIndex(upperText, marker) == IndexOf(upperText, marker)

\* extractTableText of bnp.ts
BnpExtractTableText(pdfText0) == BnpTableFrom(pdfText0, BnpStartIndex(ToUpperCase(pdfText0), BNP_START_MARKERS[1]), BnpStartIndex(ToUpperCase(pdfText0), BNP_START_MARKERS[2]))

\* the table with line breaks put before row dates, footers and section headings
BnpNormalizedTable(tableText) == CollapseNewlines(BreakBefore(BreakBefore(BreakBefore(ReplaceCr(tableText), 0, "date"), 0, "footer"), 0, "section"))

\* the lines parseBnpText loops over: split, non-breaking spaces replaced, trimmed, not empty
BnpTrimmed(split) == SelectSeq([i \in 1..Len(split) |-> Trim(ReplaceNbsp(split[i]))], LAMBDA line : Len(line) > 0)

BnpLines(tableText) == BnpTrimmed(SplitLines(BnpNormalizedTable(tableText)))

\* shouldIgnoreLine: one of IGNORED_LINE_PATTERNS matches somewhere in line
RECURSIVE WordsLength(_, _, _)
WordsLength(s, i, words) == IF ~OccursAtIgnoringCase(s, Head(words), i) THEN 0
                            ELSE IF Len(words) = 1 THEN Len(Head(words))
                            ELSE IF RunLength(s, i + Len(Head(words)), WhiteSpace) = 0 THEN 0
                            ELSE IF WordsLength(s, i + Len(Head(words)) + RunLength(s, i + Len(Head(words)), WhiteSpace), Tail(words)) = 0 THEN 0
                            ELSE Len(Head(words)) + RunLength(s, i + Len(Head(words)), WhiteSpace) + WordsLength(s, i + Len(Head(words)) + RunLength(s, i + Len(Head(words)), WhiteSpace), Tail(words))

\* one of IGNORED_LINE_PATTERNS matches at position i of line, whose character there is c in upper case
BnpIgnoredAt(line, i, c) == \/ \E k \in 1..Len(BNP_IGNORED_WORDS) : BNP_IGNORED_WORDS[k][1][1] = c /\ WordsLength(line, i, BNP_IGNORED_WORDS[k]) > 0
                            \/ PageMarkLength(line, i) > 0

shouldIgnoreLine(line) == \E i \in 0..(Len(line) - 1) : BnpIgnoredAt(line, i, ToUpperChar(line[i + 1]))

\* the header line of the table, repeated on a later page
BnpIsHeader(upperLine) == /\ \E k \in 1..2 : Includes(upperLine, BNP_START_MARKERS[k])
                          /\ \E k \in 1..2 : Includes(upperLine, BNP_VALUE_MARKERS[k])

\* SECTION_KEYWORDS.find((keyword) => upperLine.includes(keyword)), <<>> when none is found
BnpSectionMatch(upperLine) == LET hits == {k \in 1..Len(BNP_SECTION_KEYWORDS) : Includes(upperLine, BNP_SECTION_KEYWORDS[k])}
                              IN IF hits = {} THEN <<>> ELSE BNP_SECTION_KEYWORDS[CHOOSE k \in hits : \A j \in hits : k <= j]

\* isUppercaseTitle
isUppercaseTitle(line) == /\ Len(line) >= 3
                          /\ \A i \in 1..Len(line) : ~IsDigit(line[i])
                          /\ line = ToUpperCase(line)

\* DATE_LINE_REGEX.test(normalized)
BnpIsDateLine(normalized) == IsDotDate(normalized, 0) /\ Len(normalized) > 8 /\ IsSpace(normalized[9])

\* a character of a run of two white spaces or more
InWideGap(s, i) == IsSpace(s[i]) /\ ((i > 1 /\ IsSpace(s[i - 1])) \/ (i < Len(s) /\ IsSpace(s[i + 1])))

\* the column that starts at position i: it runs up to the next wide gap, or to the end
ColumnFrom(s, i) == SubSeq(s, i, CHOOSE j \in i..Len(s) : (j = Len(s) \/ InWideGap(s, j + 1)) /\ \A k \in i..j : ~InWideGap(s, k))

ColumnsAt(s, starts) == [k \in 1..Len(starts) |-> ColumnFrom(s, starts[k])]

\* s.split(/\s{2,}/).filter(Boolean) of a trimmed s
SplitColumns(s) == ColumnsAt(s, SelectSeq(Indexes(s), LAMBDA i : ~InWideGap(s, i) /\ (i = 1 \/ InWideGap(s, i - 1))))

\* s.match(/\d{2}\.\d{2}\.\d{2}/g) ?? [], searched from position i
RECURSIVE DotDateTokens(_, _)
DotDateTokensAt(s, j) == <<Slice(s, j, j + 8)>> \o DotDateTokens(s, j + 8)

DotDateTokens(s, i) == IF \A j \in i..(Len(s) - 1) : ~IsDotDate(s, j) THEN <<>> ELSE DotDateTokensAt(s, CHOOSE j \in i..(Len(s) - 1) : IsDotDate(s, j) /\ \A k \in i..(j - 1) : ~IsDotDate(s, k))

\* s.replace(/\d{2}\.\d{2}\.\d{2}/g, by), from position i on
RECURSIVE ReplaceDotDates(_, _, _)
ReplaceDotDatesAt(s, i, by, j) == Slice(s, i, j) \o by \o ReplaceDotDates(s, j + 8, by)

ReplaceDotDates(s, i, by) == IF \A j \in i..(Len(s) - 1) : ~IsDotDate(s, j) THEN SliceFrom(s, i) ELSE ReplaceDotDatesAt(s, i, by, CHOOSE j \in i..(Len(s) - 1) : IsDotDate(s, j) /\ \A k \in i..(j - 1) : ~IsDotDate(s, k))

\* the outcome of a step that looks for the amount: it raised, or found none, or found value
NoAmount == [threw |-> FALSE, value |-> Null]

\* -parseAmountFR(raw)
Negated(parsed) == [threw |-> parsed.threw, value |-> Times(parsed.value, -1)]

\* a variant of inferAmountSign that reads the hints of the line before those of the section
inferAmountSignLineFirst(amount, rawLine, section) == LET upperLine == ToUpperCase(rawLine)
                                                          upperSection == ToUpperCase(section)
                                                          Hinted(upper, hints) == \E h \in 1..Len(hints) : Includes(upper, hints[h])
                                                      IN IF Hinted(upperLine, BNP_CREDIT_HINTS) THEN amount
                                                         ELSE IF Hinted(upperLine, BNP_DEBIT_HINTS) THEN Times(amount, -1)
                                                         ELSE IF Hinted(upperSection, BNP_CREDIT_HINTS) THEN amount
                                                         ELSE Times(amount, -1)

\* inferAmountSign of bnp.ts
inferAmountSign(amount, rawLine, section) == LET upperLine == ToUpperCase(rawLine)
                                                 upperSection == ToUpperCase(section)
                                                 Hinted(upper, hints) == \E h \in 1..Len(hints) : Includes(upper, hints[h])
                                             IN IF Hinted(upperSection, BNP_CREDIT_HINTS) THEN amount
                                                ELSE IF Hinted(upperSection, BNP_DEBIT_HINTS) THEN Times(amount, -1)
                                                ELSE IF Hinted(upperLine, BNP_CREDIT_HINTS) THEN amount
                                                ELSE IF Hinted(upperLine, BNP_DEBIT_HINTS) THEN Times(amount, -1)
                                                ELSE Times(amount, -1)

\* inferAmountSign(parseAmountFR(raw), rawLine, section)
Inferred(parsed, rawLine, section) == IF parsed.threw THEN parsed ELSE [threw |-> FALSE, value |-> inferAmountSign(parsed.value, rawLine, section)]

\* the third column holds a date: the columns give the label and the value date
BnpUsesColumns(rawColumns) == Len(rawColumns) >= 3 /\ hasDateToken(rawColumns[3])

\* the amount the columns give: with five, the debit column, negated, when it is not
\* blank, else the credit column; with four, the fourth, its sign inferred
BnpColumnAmount(rawLine, section, rawColumns) == IF ~BnpUsesColumns(rawColumns) THEN NoAmount
                                                 ELSE IF Len(rawColumns) >= 5 THEN (IF Trim(rawColumns[4]) # <<>> THEN Negated(parseAmountFR(rawColumns[4]))
                                                                                    ELSE IF Trim(rawColumns[5]) # <<>> THEN parseAmountFR(rawColumns[5])
                                                                                    ELSE NoAmount)
                                                 ELSE IF Len(rawColumns) = 4 THEN Inferred(parseAmountFR(rawColumns[4]), rawLine, section)
                                                 ELSE NoAmount

\* the amount a list of matches gives: of two or more, the last but one is the debit,
\* negated, and the last, the credit, replaces it; the sign of a single one is inferred
BnpPairAmount(amounts, rawLine, section) == IF Len(amounts) >= 2 THEN (IF parseAmountFR(amounts[Len(amounts) - 1]).threw THEN parseAmountFR(amounts[Len(amounts) - 1])
                                                                       ELSE IF amounts[Len(amounts)] # <<>> THEN parseAmountFR(amounts[Len(amounts)])
                                                                       ELSE Negated(parseAmountFR(amounts[Len(amounts) - 1])))
                                            ELSE IF Len(amounts) = 1 THEN Inferred(parseAmountFR(amounts[1]), rawLine, section)
                                            ELSE NoAmount

\* the amounts found in the line once its dates are replaced by spaces
BnpStrippedAmount(rawLine, section) == BnpPairAmount(findAmountsInLine(ReplaceDotDates(rawLine, 0, <<" ">>)), rawLine, section)

\* the amounts found after the last occurrence of the value date
BnpAfterValueAmount(rawLine, section, dateTokens) == IF Len(dateTokens) < 2 \/ LastIndexOf(rawLine, dateTokens[2]) = -1 THEN NoAmount
                                                     ELSE BnpPairAmount(findAmountsInLine(SliceFrom(rawLine, LastIndexOf(rawLine, dateTokens[2]) + Len(dateTokens[2]))), rawLine, section)

\* amountValue before the section is looked at: the first of the three steps that
\* gives an amount or raises
BnpFirstAmount(byColumns, byStripped, byAfterValue) == IF byColumns.threw \/ byColumns.value # Null THEN byColumns
                                                       ELSE IF byStripped.threw \/ byStripped.value # Null THEN byStripped
                                                       ELSE byAfterValue

\* the label of the start line
BnpStartLabel(rawLine, normalized, rawColumns, dateTokens) == IF BnpUsesColumns(rawColumns) /\ normalizeSpaces(rawColumns[2]) # <<>> THEN normalizeSpaces(rawColumns[2])
                                                              ELSE IF Len(dateTokens) >= 2 /\ LastIndexOf(rawLine, dateTokens[2]) > -1 /\ IndexOf(rawLine, dateTokens[1]) > -1 THEN normalizeSpaces(Slice(rawLine, IndexOf(rawLine, dateTokens[1]) + 8, LastIndexOf(rawLine, dateTokens[2])))
                                                              ELSE normalizeSpaces(ReplaceDotDates(SliceFrom(normalized, 8 + RunLength(normalized, 8, WhiteSpace)), 0, <<>>))

\* no value date
NullDate == [year |-> 0, month |-> 0, day |-> 0]

\* the value date of the start line
BnpDateValeur(rawColumns, dateTokens) == IF BnpUsesColumns(rawColumns) THEN parseDateFR(rawColumns[3]).value
                                         ELSE IF Len(dateTokens) >= 2 THEN parseDateFR(dateTokens[2]).value
                                         ELSE NullDate

\* a variant of BnpSectionOverride that leaves the amount as it is
BnpNoOverride(amountValue, upperSection) == amountValue

\* Math.abs(amountValue) or -Math.abs(amountValue), as the section says; a section that
\* is undefined is the empty string here, and no heading is empty
BnpSectionOverride(amountValue, upperSection) == IF \E k \in 1..Len(BNP_DEBIT_SECTIONS) : Includes(upperSection, BNP_DEBIT_SECTIONS[k]) THEN Times(MathAbs(amountValue), -1)
                                                 ELSE IF \E k \in 1..Len(BNP_CREDIT_SECTIONS) : Includes(upperSection, BNP_CREDIT_SECTIONS[k]) THEN MathAbs(amountValue)
                                                 ELSE amountValue

\* what parseStartLine gives: null, an error raised, or a pending operation
NullStart == [isNull |-> TRUE, threw |-> FALSE, op |-> NoOperation]

PendingOperation(dateOperation, dateValeur, label, amount, rawLine, section) == [isNull |-> FALSE, dateOperation |-> dateOperation, dateValeur |-> dateValeur, labelParts |-> <<label>>, amount |-> amount, raw |-> <<rawLine>>, section |-> section]

\* parseStartLine once the columns, the dates and the amount are known
BnpStartFrom(rawLine, normalized, section, rawColumns, dateTokens, found) == IF found.threw THEN [isNull |-> FALSE, threw |-> TRUE, op |-> NoOperation]
                                                                             ELSE IF found.value = Null THEN NullStart
                                                                             ELSE [isNull |-> FALSE, threw |-> FALSE, op |-> PendingOperation(parseDateFR(dateTokens[1]).value, BnpDateValeur(rawColumns, dateTokens), BnpStartLabel(rawLine, normalized, rawColumns, dateTokens), BnpSectionOverride(found.value, ToUpperCase(section)), rawLine, section)]

BnpStartWith(rawLine, normalized, section, rawColumns, dateTokens) == BnpStartFrom(rawLine, normalized, section, rawColumns, dateTokens, BnpFirstAmount(BnpColumnAmount(rawLine, section, rawColumns), BnpStrippedAmount(rawLine, section), BnpAfterValueAmount(rawLine, section, dateTokens)))

\* parseStartLine
parseStartLine(rawLine, normalized, section) == IF ~BnpIsDateLine(normalized) THEN NullStart ELSE BnpStartWith(rawLine, normalized, section, SplitColumns(Trim(rawLine)), DotDateTokens(normalized, 0))

\* what the loop of parseBnpText does with a line that is neither skipped nor a
\* heading, given what parseStartLine makes of it
BnpRowKind(started) == IF started.threw THEN "threw" ELSE IF ~started.isNull THEN "start" ELSE "other"

\* what the loop does with a line, given the line normalized and in upper case
BnpKindOf(rawLine, normalized, upperLine, section) == IF BnpIsHeader(upperLine) \/ shouldIgnoreLine(normalized) THEN "skip"
                                                      ELSE IF BnpSectionMatch(upperLine) # <<>> THEN "section"
                                                      ELSE IF isUppercaseTitle(normalized) /\ ~hasDateToken(normalized) THEN "title"
                                                      ELSE BnpRowKind(parseStartLine(rawLine, normalized, section))

\* what the loop of parseBnpText does with a line, the section being what it is
BnpKind(rawLine, section) == BnpKindOf(rawLine, normalizeSpaces(rawLine), ToUpperCase(normalizeSpaces(rawLine)), section)

\* the transaction flush pushes for the pending operation
BnpTransaction(op) == [dateOperation |-> op.dateOperation, dateValeur |-> op.dateValeur, label |-> normalizeSpaces(Join(op.labelParts, <<" ">>)), amount |-> op.amount, meta |-> [raw |-> Join(op.raw, <<" ", "|", " ">>), section |-> op.section]]

\* a variant of BnpFlushed that pushes nothing
BnpDropped(txs, op) == txs

\* transactions after flush()
BnpFlushed(txs, op) == IF op.isNull THEN txs ELSE Append(txs, BnpTransaction(op))

\* 'Date comptable  Libelle'
B_HEAD == <<"D", "a", "t", "e", " ", "c", "o", "m", "p", "t", "a", "b", "l", "e", " ", " ", "L", "i", "b", "e", "l", "l", "e">>
\* 'DATECOMPTABLE'
B_HEAD_COMPACT == <<"D", "A", "T", "E", "C", "O", "M", "P", "T", "A", "B", "L", "E">>
\* 'Releve de juin'
B_NO_HEAD == <<"R", "e", "l", "e", "v", "e", " ", "d", "e", " ", "j", "u", "i", "n">>
\* '05.06.25  VIR RECU  05.06.25  4 200,00'
B_ROW_COLUMNS == <<"0", "5", ".", "0", "6", ".", "2", "5", " ", " ", "V", "I", "R", " ", "R", "E", "C", "U", " ", " ", "0", "5", ".", "0", "6", ".", "2", "5", " ", " ", "4", " ", "2", "0", "0", ",", "0", "0">>
\* '06.06.25  CHQ  06.06.25  1 200,00  300,00'
B_ROW_FIVE == <<"0", "6", ".", "0", "6", ".", "2", "5", " ", " ", "C", "H", "Q", " ", " ", "0", "6", ".", "0", "6", ".", "2", "5", " ", " ", "1", " ", "2", "0", "0", ",", "0", "0", " ", " ", "3", "0", "0", ",", "0", "0">>
\* '07.06.25 PRLV EDF 07.06.25 120,50' and, on a second line, 'ref 123'
B_ROW_ONE == <<"0", "7", ".", "0", "6", ".", "2", "5", " ", "P", "R", "L", "V", " ", "E", "D", "F", " ", "0", "7", ".", "0", "6", ".", "2", "5", " ", "1", "2", "0", ",", "5", "0", "\n", "r", "e", "f", " ", "1", "2", "3">>
\* '08.06.25 CB 08.06.25 12,00 30,00'
B_ROW_TWO == <<"0", "8", ".", "0", "6", ".", "2", "5", " ", "C", "B", " ", "0", "8", ".", "0", "6", ".", "2", "5", " ", "1", "2", ",", "0", "0", " ", "3", "0", ",", "0", "0">>
\* '09.06.25 X 09.06.25 11.22.33,44 55.66.77,88'
B_ROW_AFTER == <<"0", "9", ".", "0", "6", ".", "2", "5", " ", "X", " ", "0", "9", ".", "0", "6", ".", "2", "5", " ", "1", "1", ".", "2", "2", ".", "3", "3", ",", "4", "4", " ", "5", "5", ".", "6", "6", ".", "7", "7", ",", "8", "8">>
\* 'ref 123'
B_MORE == <<"r", "e", "f", " ", "1", "2", "3">>
\* 'VIREMENTS RECUS'
B_RECUS == <<"V", "I", "R", "E", "M", "E", "N", "T", "S", " ", "R", "E", "C", "U", "S">>
\* 'Cheques emis'
B_CHEQUES == <<"C", "h", "e", "q", "u", "e", "s", " ", "e", "m", "i", "s">>
\* 'DIVERS'
B_TITLE == <<"D", "I", "V", "E", "R", "S">>
\* 'Sous total 1,00'
B_SOUS_TOTAL == <<"S", "o", "u", "s", " ", "t", "o", "t", "a", "l", " ", "1", ",", "0", "0">>
\* '10.06.25  BAD  10.06.25  --'
B_ROW_BAD == <<"1", "0", ".", "0", "6", ".", "2", "5", " ", " ", "B", "A", "D", " ", " ", "1", "0", ".", "0", "6", ".", "2", "5", " ", " ", "-", "-">>
\* 'SOLDE AU 30.06.25'
B_END == <<"S", "O", "L", "D", "E", " ", "A", "U", " ", "3", "0", ".", "0", "6", ".", "2", "5">>

\* lines of a BNP statement after the head of the table
MaxBnpLines == 2

\* what stands before the table, the start marker in two words, in one, or none, and
\* what separates the lines: a page of a PDF may give them all on one line
BnpLayouts == {<<B_HEAD, <<"\n">>>>, <<B_HEAD_COMPACT, <<" ">>>>, <<B_NO_HEAD, <<"\n">>>>}

BnpFragments == {B_ROW_COLUMNS, B_ROW_FIVE, B_ROW_ONE, B_ROW_TWO, B_ROW_AFTER, B_MORE, B_RECUS, B_CHEQUES, B_TITLE, B_SOUS_TOTAL, B_ROW_BAD, B_END}

\* the texts given to parseBnpText
BnpTexts == {Join(<<layout[1]>> \o fs, layout[2]) : layout \in BnpLayouts, fs \in SeqsUpTo(BnpFragments, MaxBnpLines)}

bnpRest == <<routeVars, pdfText, now, sgVars, libVars, bookVars, callVars, cicVars, lclVars, uiVars>>

InitBnp == /\ RouteIdle
           /\ LclIdle
           /\ UiIdle
           /\ SgIdle
           /\ CicIdle
           /\ LibIdle
           /\ BookIdle
           /\ CallsIdle
           /\ transactions = <<>>
           /\ ppc = "start"
           /\ pdfText \in BnpTexts
           /\ now = 0
           /\ lines = <<>>
           /\ lineIdx = 0
           /\ thrown = ""
           /\ currentSection = <<>>
           /\ currentOperation = NoOperation

\* extractTableText gives nothing: parseBnpText raises
BnpThrow == /\ ppc = "start"
            /\ BnpExtractTableText(pdfText) = <<>>
            /\ ppc' = "threw"
            /\ thrown' = "Format PDF non reconnu BNP"
            /\ UNCHANGED <<lines, lineIdx, transactions, bnpVars, bnpRest>>

\* the table is found and cut into lines
BnpTable == /\ ppc = "start"
            /\ BnpExtractTableText(pdfText) # <<>>
            /\ ppc' = "loop"
            /\ lines' = BnpLines(BnpExtractTableText(pdfText))
            /\ UNCHANGED <<lineIdx, thrown, transactions, bnpVars, bnpRest>>

\* the loop is at a line of this kind
BnpAt(kind) == /\ ppc = "loop"
               /\ lineIdx < Len(lines)
               /\ BnpKind(lines[lineIdx + 1], currentSection) = kind

\* a header line or an ignored line: continue
BnpSkipLine == /\ BnpAt("skip")
               /\ lineIdx' = lineIdx + 1
               /\ UNCHANGED <<ppc, lines, thrown, transactions, bnpVars, bnpRest>>

\* a line that holds a section keyword: the keyword is the section
BnpSection == /\ BnpAt("section")
              /\ lineIdx' = lineIdx + 1
              /\ currentSection' = BnpSectionMatch(ToUpperCase(normalizeSpaces(lines[lineIdx + 1])))
              /\ UNCHANGED <<ppc, lines, thrown, transactions, currentOperation, bnpRest>>

\* a title in upper case without a date: the line is the section
BnpTitle == /\ BnpAt("title")
            /\ lineIdx' = lineIdx + 1
            /\ currentSection' = normalizeSpaces(lines[lineIdx + 1])
            /\ UNCHANGED <<ppc, lines, thrown, transactions, currentOperation, bnpRest>>

\* a start line: the pending operation is flushed and the new one takes its place
BnpStartRow == /\ BnpAt("start")
               /\ lineIdx' = lineIdx + 1
               /\ transactions' = BnpFlushed(transactions, currentOperation)
               /\ currentOperation' = parseStartLine(lines[lineIdx + 1], normalizeSpaces(lines[lineIdx + 1]), currentSection).op
               /\ UNCHANGED <<ppc, lines, thrown, currentSection, bnpRest>>

\* parseStartLine raises on the amount of a column: parseBnpText raises
BnpStartThrows == /\ BnpAt("threw")
                  /\ ppc' = "threw"
                  /\ thrown' = "Invalid amount"
                  /\ UNCHANGED <<lines, lineIdx, transactions, bnpVars, bnpRest>>

\* any other line while an operation is pending: it is added to its label and to its raw lines
BnpContinueRow == /\ ~currentOperation.isNull
                  /\ BnpAt("other")
                  /\ lineIdx' = lineIdx + 1
                  /\ currentOperation' = [currentOperation EXCEPT !.labelParts = Append(@, normalizeSpaces(lines[lineIdx + 1])), !.raw = Append(@, lines[lineIdx + 1])]
                  /\ UNCHANGED <<ppc, lines, thrown, transactions, currentSection, bnpRest>>

\* any other line while no operation is pending: nothing is done with it
BnpOrphanLine == /\ currentOperation.isNull
                 /\ BnpAt("other")
                 /\ lineIdx' = lineIdx + 1
                 /\ UNCHANGED <<ppc, lines, thrown, transactions, bnpVars, bnpRest>>

\* after the loop: flush(), and the transactions are returned
BnpReturn == /\ ppc = "loop"
             /\ lineIdx = Len(lines)
             /\ transactions' = BnpFlushed(transactions, currentOperation)
             /\ currentOperation' = NoOperation
             /\ ppc' = "done"
             /\ UNCHANGED <<lines, lineIdx, thrown, currentSection, bnpRest>>

NextBnp == BnpThrow \/ BnpTable \/ BnpSkipLine \/ BnpSection \/ BnpTitle \/ BnpStartRow \/ BnpStartThrows \/ BnpContinueRow \/ BnpOrphanLine \/ BnpReturn

SpecBnp == InitBnp /\ [][NextBnp]_vars

\* C16: the BNP parser fails with the unrecognized-format error, and returns no
\* transaction, for every text that holds neither DATE COMPTABLE nor DATECOMPTABLE,
\* letter case ignored.
C16_NoMarkerNoParse == (~IncludesIgnoringCase(pdfText, BNP_START_MARKERS[1]) /\ ~IncludesIgnoringCase(pdfText, BNP_START_MARKERS[2])) => /\ ppc \in {"start", "threw"}
                                                                                                                                          /\ transactions = <<>>
                                                                                                                                          /\ ppc = "threw" => thrown = "Format PDF non reconnu BNP"

\* a text without the marker, holding rows that a table would yield, was refused
C16_Witness == /\ ppc = "threw"
               /\ thrown = "Format PDF non reconnu BNP"
               /\ ~IncludesIgnoringCase(pdfText, BNP_START_MARKERS[1])
               /\ ~IncludesIgnoringCase(pdfText, BNP_START_MARKERS[2])
               /\ Includes(pdfText, B_ROW_ONE)

\* the start lines among the first n lines: whether parseStartLine accepts a line does
\* not depend on the section
RowStarts(n) == {i \in 1..n : BnpKind(lines[i], <<>>) = "start"}

\* the j-th of them
NthStart(j, n) == CHOOSE i \in RowStarts(n) : Cardinality({x \in RowStarts(n) : x <= i}) = j

\* the last of the first n lines before the start line that follows line i
RowEnd(i, n) == IF \E x \in RowStarts(n) : x > i THEN (CHOOSE x \in RowStarts(n) : x > i /\ \A y \in RowStarts(n) : y > i => x <= y) - 1 ELSE n

\* the start line i and the lines up to e that are neither skipped nor headings
RowIndexes(i, e) == SelectSeq([k \in 1..(e - i + 1) |-> i + k - 1], LAMBDA x : BnpKind(lines[x], <<>>) \in {"start", "other"})

\* the raw lines and the label the row that starts at line i must have
RowRawOf(indexes) == Join([k \in 1..Len(indexes) |-> lines[indexes[k]]], <<" ", "|", " ">>)

RowLabelOf(indexes) == normalizeSpaces(Join([k \in 1..Len(indexes) |-> IF k = 1 THEN parseStartLine(lines[indexes[1]], normalizeSpaces(lines[indexes[1]]), <<>>).op.labelParts[1] ELSE normalizeSpaces(lines[indexes[k]])], <<" ">>))

\* the j-th row the parser holds: a transaction, or the pending operation as flush would push it
RowHeld(j) == IF j <= Len(transactions) THEN transactions[j] ELSE BnpTransaction(currentOperation)

RowIsOf(row, indexes) == row.meta.raw = RowRawOf(indexes) /\ row.label = RowLabelOf(indexes)

\* C18: while parseBnpText loops and when it returns, there is one row per start line
\* read so far, in the order of the lines; all but the last are transactions, and the
\* last is the pending operation until the end of the input, when it is a transaction
\* too; each row holds its start line and the lines after it, up to the next start
\* line, that are neither ignored nor headings; lines before the first start line are
\* in no row.
C18_OneRowPerStartLine == ppc \in {"loop", "done"} => /\ Len(transactions) + (IF currentOperation.isNull THEN 0 ELSE 1) = Cardinality(RowStarts(lineIdx))
                                                      /\ currentOperation.isNull <=> (ppc = "done" \/ RowStarts(lineIdx) = {})
                                                      /\ \A j \in 1..Cardinality(RowStarts(lineIdx)) : RowIsOf(RowHeld(j), RowIndexes(NthStart(j, lineIdx), RowEnd(NthStart(j, lineIdx), lineIdx)))

\* two rows were returned: a line before the first was dropped, the first took the line
\* after it and was pushed at the second start line, the second at the end
C18_Witness == /\ ppc = "done"
               /\ Len(lines) = 4
               /\ Len(transactions) = 2
               /\ RowStarts(4) = {2, 4}
               /\ BnpKind(lines[1], <<>>) = "other"
               /\ BnpKind(lines[3], <<>>) = "other"
               /\ Len(transactions[1].label) > Len(parseStartLine(lines[2], normalizeSpaces(lines[2]), <<>>).op.labelParts[1])

\* the section a row was read in holds one of the names
SectionNames(section, names) == \E k \in 1..Len(names) : Includes(ToUpperCase(section), names[k])

\* the rows the parser holds: the transactions and, while there is one, the pending operation
RowsHeld == 1..(Len(transactions) + (IF currentOperation.isNull THEN 0 ELSE 1))

AmountsCarried(rawLine) == findAmountsInLine(ReplaceDotDates(rawLine, 0, <<" ">>))

\* C20: a row whose start line carries two amounts, read in a section that forces no
\* sign, has for amount the last of the two, positive, whichever step found it.
C20_LastAmountIsCredit == ppc \in {"loop", "done"} => \A j \in RowsHeld : (/\ Len(AmountsCarried(lines[NthStart(j, lineIdx)])) = 2
                                                                           /\ ~SectionNames(RowHeld(j).meta.section, BNP_DEBIT_SECTIONS)
                                                                           /\ ~SectionNames(RowHeld(j).meta.section, BNP_CREDIT_SECTIONS)) => RowHeld(j).amount = MathAbs(parseAmountFR(AmountsCarried(lines[NthStart(j, lineIdx)])[2]).value)

(***************************************************************************)
(* The CIC parser (cic.ts): cicParser.parse, which takes the bytes of a    *)
(* PDF only, the lines extractLinesFromPdf builds from the text items of   *)
(* its pages, and the loop over these lines.                               *)
(***************************************************************************)
\* the literal prefixes of NOISE_PATTERNS, in upper case; /^Page \d+/i is PageNoise below
CIC_NOISE_PREFIXES == <<<<"R", "E", "L", "E", "V", "E", " ", "E", "T", " ", "I", "N", "F", "O", "R", "M", "A", "T", "I", "O", "N", "S", " ", "B", "A", "N", "C", "A", "I", "R", "E", "S">>, <<"C", "R", "E", "D", "I", "T", " ", "I", "N", "D", "U", "S", "T", "R", "I", "E", "L", " ", "E", "T", " ", "C", "O", "M", "M", "E", "R", "C", "I", "A", "L">>, <<"C", "I", "C", " ">>, <<"I", "N", "F", "O", "R", "M", "A", "T", "I", "O", "N", " ", "S", "U", "R", " ", "L", "A", " ", "P", "R", "O", "T", "E", "C", "T", "I", "O", "N", " ", "D", "E", "S", " ", "C", "O", "M", "P", "T", "E", "S">>, <<"V", "O", "T", "R", "E", " ", "C", "O", "N", "S", "E", "I", "L", "L", "E", "R">>, <<"C", "/", "C", " ">>, <<"K", "V", ".">>, <<"I", "B", "A", "N">>, <<"B", "I", "C">>, <<"S", "O", "L", "D", "E", " ">>, <<"T", "O", "T", "A", "L", " ", "D", "E", "S", " ", "M", "O", "U", "V", "E", "M", "E", "N", "T", "S">>, <<"T", "O", "T", "A", "L", " ", "P", "R", "E", "L", "E", "V", "E", " ">>, <<"D", "A", "T", "E", " ", "D", "A", "T", "E", " ", "V", "A", "L", "E", "U", "R">>, <<"D", "A", "T", "E", " ", "C", "O", "M", "M", "E", "R", "C", "E", " ", "V", "I", "L", "L", "E">>>>

S_PAGE_ == <<"P", "A", "G", "E", " ">>

S_RELEVE_DE_VOTRE_CARTE == <<"R", "E", "L", "E", "V", "E", " ", "D", "E", " ", "V", "O", "T", "R", "E", " ", "C", "A", "R", "T", "E">>

S_DATE_UPPER == <<"D", "A", "T", "E">>

S_DEBIT_UPPER == <<"D", "E", "B", "I", "T">>

S_CREDIT_UPPER == <<"C", "R", "E", "D", "I", "T">>

\* the header of the table, its titles given from right to left
CF_HEADER == <<[str |-> <<"C", "r", "e", "d", "i", "t">>, x |-> 500, dy |-> 0], [str |-> <<"D", "e", "b", "i", "t">>, x |-> 400, dy |-> 0], [str |-> <<"O", "p", "e", "r", "a", "t", "i", "o", "n">>, x |-> 160, dy |-> 0], [str |-> <<"D", "a", "t", "e", " ", "v", "a", "l", "e", "u", "r">>, x |-> 100, dy |-> 0], [str |-> <<"D", "a", "t", "e">>, x |-> 40, dy |-> 0]>>

\* the title of the card statement
CF_CARD == <<[str |-> <<"R", "E", "L", "E", "V", "E", " ", "D", "E", " ", "V", "O", "T", "R", "E", " ", "C", "A", "R", "T", "E">>, x |-> 40, dy |-> 0]>>

\* a row whose amount stands in the debit column, one item a point higher
CF_ROW_DEBIT == <<[str |-> <<"0", "1", "/", "0", "2", "/", "2", "0", "2", "5">>, x |-> 40, dy |-> 0], [str |-> <<"0", "2", "/", "0", "2", "/", "2", "0", "2", "5">>, x |-> 100, dy |-> -1], [str |-> <<"P", "R", "L", "V", " ", "E", "D", "F">>, x |-> 160, dy |-> 0], [str |-> <<"1", "2", ",", "0", "0">>, x |-> 400, dy |-> 0]>>

\* a row whose amount stands in the credit column
CF_ROW_CREDIT == <<[str |-> <<"0", "3", "/", "0", "2", "/", "2", "0", "2", "5">>, x |-> 40, dy |-> 0], [str |-> <<"0", "3", "/", "0", "2", "/", "2", "0", "2", "5">>, x |-> 100, dy |-> 0], [str |-> <<"V", "I", "R">>, x |-> 160, dy |-> 0], [str |-> <<"1", " ", "5", "0", "0", ",", "5", "0">>, x |-> 500, dy |-> 0]>>

\* a row given as one item of text
CF_ROW_ONE_ITEM == <<[str |-> <<"0", "4", "/", "0", "2", "/", "2", "0", "2", "5", " ", "0", "4", "/", "0", "2", "/", "2", "0", "2", "5", " ", "C", "B", " ", "7", ",", "0", "0">>, x |-> 40, dy |-> 0]>>

\* a row whose amount item starts with letters
CF_ROW_BAD == <<[str |-> <<"0", "5", "/", "0", "2", "/", "2", "0", "2", "5">>, x |-> 40, dy |-> 0], [str |-> <<"0", "5", "/", "0", "2", "/", "2", "0", "2", "5">>, x |-> 100, dy |-> 0], [str |-> <<"X">>, x |-> 160, dy |-> 0], [str |-> <<"E", "U", "R", " ", "1", ",", "0", "0">>, x |-> 400, dy |-> 0]>>

\* two dates and no amount
CF_NO_AMOUNT == <<[str |-> <<"0", "6", "/", "0", "2", "/", "2", "0", "2", "5">>, x |-> 40, dy |-> 0], [str |-> <<"0", "6", "/", "0", "2", "/", "2", "0", "2", "5">>, x |-> 100, dy |-> 0], [str |-> <<"E", "N", " ", "A", "T", "T", "E", "N", "T", "E">>, x |-> 160, dy |-> 0]>>

\* a second line of label
CF_MORE == <<[str |-> <<"R", "E", "F", " ", "4", "2">>, x |-> 160, dy |-> 0]>>

\* a page number
CF_NOISE == <<[str |-> <<"P", "a", "g", "e", " ", "2">>, x |-> 40, dy |-> 0]>>

\* Math.round(y / 2) * 2 for a whole y that is not negative: a half is rounded up
CicYKey(y) == ((y + 1) \div 2) * 2

\* items.sort((a, b) => a.x - b.x): the sort keeps the order of items of equal x
RECURSIVE SortedByX(_)
InsertByX(sorted, item, before) == SubSeq(sorted, 1, before) \o <<item>> \o SubSeq(sorted, before + 1, Len(sorted))

SortedByX(items) == IF items = <<>> THEN <<>> ELSE InsertByX(SortedByX(SubSeq(items, 1, Len(items) - 1)), items[Len(items)], Cardinality({i \in 1..(Len(items) - 1) : items[i].x <= items[Len(items)].x}))

\* lineMap.get(yKey): the items of the page whose y falls in the bucket, as they come
CicBucketOf(found) == [i \in 1..Len(found) |-> LineItem(found[i].str, found[i].x)]

CicBucket(items, yKey) == CicBucketOf(SelectSeq(items, LAMBDA item : CicYKey(item.y) = yKey))

\* [...lineMap.entries()].sort((a, b) => b[0] - a[0]): the keys, the greatest first
RECURSIVE CicKeysDescending(_)
CicKeysDescending(keys) == IF keys = {} THEN <<>> ELSE <<SetMax(keys)>> \o CicKeysDescending(keys \ {SetMax(keys)})

\* pageLines: one line per bucket, its items sorted by x, lines without text left out
CicLinesOf(items, keys) == SelectSeq([k \in 1..Len(keys) |-> PdfLine(SortedByX(CicBucket(items, keys[k])))], LAMBDA line : Len(line.text) > 0)

CicPageLines(items) == CicLinesOf(items, CicKeysDescending({CicYKey(items[i].y) : i \in 1..Len(items)}))

\* extractLinesFromPdf: the lines of the pages, page after page
RECURSIVE extractLinesFromPdf(_)
extractLinesFromPdf(pages) == IF pages = <<>> THEN <<>> ELSE CicPageLines(Head(pages)) \o extractLinesFromPdf(Tail(pages))

\* /^Page \d+/i
CicPageNoise(lineText) == OccursAtIgnoringCase(lineText, S_PAGE_, 0) /\ Len(lineText) > Len(S_PAGE_) /\ IsDigit(lineText[Len(S_PAGE_) + 1])

\* isNoiseLine of cic.ts
isNoiseLine(lineText) == \/ \E k \in 1..Len(CIC_NOISE_PREFIXES) : OccursAtIgnoringCase(lineText, CIC_NOISE_PREFIXES[k], 0)
                         \/ CicPageNoise(lineText)

\* AMOUNT_REGEX.test(s)
CicHasAmount(s) == \E i \in 0..(Len(s) - 1) : AmountFRLength(s, i) > 0

\* findAmountItem: the index of the last item whose trimmed text holds an amount, 0 for null
findAmountItem(items) == IF \E i \in 1..Len(items) : CicHasAmount(Trim(items[i].text)) THEN SetMax({i \in 1..Len(items) : CicHasAmount(Trim(items[i].text))}) ELSE 0

\* DATE_REGEX.test(s)
CicHasLongDate(s) == \E i \in 0..(Len(s) - 1) : IsLongDate(s, i)

\* s.replace(DATE_REGEX, ""): the first date is taken out
CicCutAt(s, starts, n) == IF starts = {} THEN s ELSE Slice(s, 0, FirstIndex(starts)) \o SliceFrom(s, FirstIndex(starts) + n)

CicWithoutDate(s) == CicCutAt(s, {i \in 0..(Len(s) - 1) : IsLongDate(s, i)}, 10)

\* s.replace(AMOUNT_REGEX, ""): the first amount is taken out
CicAmountCut(s, starts) == IF starts = {} THEN s ELSE CicCutAt(s, starts, AmountFRLength(s, FirstIndex(starts)))

CicWithoutAmount(s) == CicAmountCut(s, {i \in 0..(Len(s) - 1) : AmountFRLength(s, i) > 0})

\* the items extractLabel keeps when two items hold a date: those between the second
\* of them and the amount item
CicLabelItems(items, secondDate, amountItem) == SelectSeq(items, LAMBDA item : item.x > secondDate.x + 1 /\ item.x < amountItem.x - 1 /\ Trim(item.text) # <<>>)

CicLabelFrom(dateItems, items, amountItem) == IF Len(dateItems) >= 2 THEN CicLabelItems(items, dateItems[2], amountItem) ELSE <<>>

CicLabelOf(labelItems, fallbackText) == IF labelItems # <<>> THEN normalizeSpaces(Join(ItemTexts(labelItems), <<" ">>)) ELSE normalizeSpaces(CicWithoutAmount(CicWithoutDate(CicWithoutDate(fallbackText))))

\* extractLabel of cic.ts
extractLabel(items, amountItem, fallbackText) == CicLabelOf(CicLabelFrom(SelectSeq(items, LAMBDA item : CicHasLongDate(Trim(item.text))), items, amountItem), fallbackText)

\* let debitX: number | null = null
NoColumnX == -1

\* a variant of CicOnCreditSide that takes every amount for a credit
CicAlwaysCredit(x, debitColumn, creditColumn) == TRUE

\* amountItem.x >= midpoint, the midpoint being (debitX + creditX) / 2, or 455 while a column is unknown
CicOnCreditSide(x, debitColumn, creditColumn) == IF debitColumn # NoColumnX /\ creditColumn # NoColumnX THEN 2 * x >= debitColumn + creditColumn ELSE x >= 455

\* what the loop of cicParser.parse makes of a line that holds two dates: nothing when no
\* item holds an amount, an error when parseAmountFR raises, else a pending operation
CicStartFrom(line, dates, amountItem, parsed, debitColumn, creditColumn) == IF parsed.threw THEN [isNull |-> FALSE, threw |-> TRUE, op |-> NoOperation]
                                                                            ELSE [isNull |-> FALSE, threw |-> FALSE, op |-> [isNull |-> FALSE, dateOperation |-> parseDateFRLong(dates[1]), dateValeur |-> parseDateFRLong(dates[2]), labelParts |-> <<extractLabel(line.items, amountItem, line.text)>>, amount |-> Times(parsed.value, IF CicOnCreditSide(amountItem.x, debitColumn, creditColumn) THEN 1 ELSE -1), raw |-> <<line.text>>]]

CicStartWith(line, dates, amountIndex, debitColumn, creditColumn) == IF amountIndex = 0 THEN NullStart ELSE CicStartFrom(line, dates, line.items[amountIndex], parseAmountFR(line.items[amountIndex].text), debitColumn, creditColumn)

CicStart(line, debitColumn, creditColumn) == CicStartWith(line, LongDateTokens(line.text, 0), findAmountItem(line.items), debitColumn, creditColumn)

\* what the loop does with a line, given its text in upper case
CicKindOf(line, upper, inCard) == IF Includes(upper, S_RELEVE_DE_VOTRE_CARTE) THEN "card"
                                  ELSE IF Includes(upper, S_DATE_UPPER) /\ Includes(upper, S_DEBIT_UPPER) /\ Includes(upper, S_CREDIT_UPPER) THEN "header"
                                  ELSE IF inCard THEN "inCard"
                                  ELSE IF isNoiseLine(line.text) THEN "noise"
                                  ELSE IF Len(LongDateTokens(line.text, 0)) < 2 THEN "other"
                                  ELSE IF findAmountItem(line.items) = 0 THEN "noAmount"
                                  ELSE IF parseAmountFR(line.items[findAmountItem(line.items)].text).threw THEN "threw"
                                  ELSE "start"

\* a variant of CicKind for which no line is in the card section
CicKindOutside(line, inCard) == CicKindOf(line, ToUpperCase(line.text), FALSE)

\* what the loop does with a line
CicKind(line, inCard) == CicKindOf(line, ToUpperCase(line.text), inCard)

\* line.items.find((item) => item.text.toUpperCase().includes(word)): its index, 0 when none
CicColumnItem(items, word) == FirstIndex({i \in 1..Len(items) : Includes(ToUpperCase(items[i].text), word)})

\* the transaction flush pushes for the pending operation
CicTransaction(op) == [dateOperation |-> op.dateOperation, dateValeur |-> op.dateValeur, label |-> normalizeSpaces(Join(op.labelParts, <<" ">>)), amount |-> op.amount, meta |-> [raw |-> Join(op.raw, <<" ", "|", " ">>)]]

\* transactions after flush()
CicFlushed(txs, op) == IF op.isNull THEN txs ELSE Append(txs, CicTransaction(op))

\* lines of a CIC statement
MaxCicLines == 3

CicFragments == {CF_HEADER, CF_CARD, CF_ROW_DEBIT, CF_ROW_CREDIT, CF_ROW_ONE_ITEM, CF_ROW_BAD, CF_NO_AMOUNT, CF_MORE, CF_NOISE}

\* the text items of a page on which the fragments stand one under the other, as
\* getTextContent may give them: the last line first; x and y are those that
\* convertToViewportPoint gives, and the lines are read by decreasing y
CicPlaced(fragment, y) == [i \in 1..Len(fragment) |-> [str |-> fragment[i].str, x |-> fragment[i].x, y |-> y + fragment[i].dy]]

RECURSIVE CicPageItems(_, _)
CicPageItems(fs, y) == IF fs = <<>> THEN <<>> ELSE CicPageItems(Tail(fs), y - 10) \o CicPlaced(Head(fs), y)

\* the same statement as a text, one fragment per line
CicTextOf(fs) == Join([k \in 1..Len(fs) |-> Join([i \in 1..Len(fs[k]) |-> fs[k][i].str], <<" ">>)], <<"\n">>)

\* what parse is given: a text, the bytes of a PDF of one page, or bytes that are no PDF
CicInputs == {[type |-> "string", text |-> CicTextOf(fs), valid |-> FALSE, pages |-> <<>>] : fs \in SeqsUpTo(CicFragments, MaxCicLines)} \cup {[type |-> "buffer", text |-> <<>>, valid |-> TRUE, pages |-> <<CicPageItems(fs, 100)>>] : fs \in SeqsUpTo(CicFragments, MaxCicLines)} \cup {[type |-> "buffer", text |-> <<>>, valid |-> FALSE, pages |-> <<>>]}

cicRest == <<routeVars, pdfText, now, current, inTable, currentSection, output, bookVars, callVars, lclVars, uiVars>>

InitCic == /\ RouteIdle
           /\ LclIdle
           /\ UiIdle
           /\ BookIdle
           /\ CallsIdle
           /\ transactions = <<>>
           /\ ppc = "start"
           /\ pdfText = <<>>
           /\ now = 0
           /\ lines = <<>>
           /\ lineIdx = 0
           /\ thrown = ""
           /\ current = NoCurrent
           /\ inTable = FALSE
           /\ currentSection = <<>>
           /\ output = <<>>
           /\ input \in CicInputs
           /\ currentOperation = NoOperation
           /\ debitX = NoColumnX
           /\ creditX = NoColumnX
           /\ inCardSection = FALSE

\* a variant of CicIsText that takes no input for a text
CicIsNeverText(given) == FALSE

\* typeof input === "string"
CicIsText(given) == given.type = "string"

\* parse is given a text: it raises at once
CicRejectText == /\ ppc = "start"
                 /\ CicIsText(input)
                 /\ ppc' = "threw"
                 /\ thrown' = "Le parsing CIC requiert le PDF brut."
                 /\ UNCHANGED <<input, lines, lineIdx, transactions, currentOperation, debitX, creditX, inCardSection, cicRest>>

\* the bytes are no PDF: loadingTask.promise rejects in extractLinesFromPdf
CicLoadFails == /\ ppc = "start"
                /\ ~CicIsText(input)
                /\ ~input.valid
                /\ ppc' = "threw"
                /\ thrown' = "InvalidPDFException"
                /\ UNCHANGED <<input, lines, lineIdx, transactions, currentOperation, debitX, creditX, inCardSection, cicRest>>

\* const lines = await extractLinesFromPdf(input)
CicExtractLines == /\ ppc = "start"
                   /\ ~CicIsText(input)
                   /\ input.valid
                   /\ ppc' = "loop"
                   /\ lines' = extractLinesFromPdf(input.pages)
                   /\ UNCHANGED <<input, lineIdx, thrown, transactions, currentOperation, debitX, creditX, inCardSection, cicRest>>

\* if (debitItem && creditItem): the columns and the card section after a header line
CicColumnsOf(items, debitItem, creditItem, debitColumn, creditColumn, inCard) == IF debitItem # 0 /\ creditItem # 0 THEN <<items[debitItem].x, items[creditItem].x, FALSE>> ELSE <<debitColumn, creditColumn, inCard>>

\* the loop is at a line of this kind
CicAt(kind) == /\ ppc = "loop"
               /\ lineIdx < Len(lines)
               /\ CicKind(lines[lineIdx + 1], inCardSection) = kind

\* RELEVE DE VOTRE CARTE: the pending operation is flushed and the card section starts
CicCardSection == /\ CicAt("card")
                  /\ lineIdx' = lineIdx + 1
                  /\ transactions' = CicFlushed(transactions, currentOperation)
                  /\ currentOperation' = NoOperation
                  /\ inCardSection' = TRUE
                  /\ UNCHANGED <<ppc, input, lines, thrown, debitX, creditX, cicRest>>

\* a header line: the columns are read from its items and the card section ends
CicHeaderLine == /\ CicAt("header")
                 /\ lineIdx' = lineIdx + 1
                 /\ debitX' = CicColumnsOf(lines[lineIdx + 1].items, CicColumnItem(lines[lineIdx + 1].items, S_DEBIT_UPPER), CicColumnItem(lines[lineIdx + 1].items, S_CREDIT_UPPER), debitX, creditX, inCardSection)[1]
                 /\ creditX' = CicColumnsOf(lines[lineIdx + 1].items, CicColumnItem(lines[lineIdx + 1].items, S_DEBIT_UPPER), CicColumnItem(lines[lineIdx + 1].items, S_CREDIT_UPPER), debitX, creditX, inCardSection)[2]
                 /\ inCardSection' = CicColumnsOf(lines[lineIdx + 1].items, CicColumnItem(lines[lineIdx + 1].items, S_DEBIT_UPPER), CicColumnItem(lines[lineIdx + 1].items, S_CREDIT_UPPER), debitX, creditX, inCardSection)[3]
                 /\ UNCHANGED <<ppc, input, lines, thrown, transactions, currentOperation, cicRest>>

\* a line of the card section: continue
CicCardLine == /\ CicAt("inCard")
               /\ lineIdx' = lineIdx + 1
               /\ UNCHANGED <<ppc, input, lines, thrown, transactions, currentOperation, debitX, creditX, inCardSection, cicRest>>

\* a noise line, or a line with two dates of which no item holds an amount: continue
CicSkipLine == /\ CicAt("noise") \/ CicAt("noAmount")
               /\ lineIdx' = lineIdx + 1
               /\ UNCHANGED <<ppc, input, lines, thrown, transactions, currentOperation, debitX, creditX, inCardSection, cicRest>>

\* a line with two dates and an amount: the pending operation is flushed and the new one takes its place
CicStartRow == /\ CicAt("start")
               /\ lineIdx' = lineIdx + 1
               /\ transactions' = CicFlushed(transactions, currentOperation)
               /\ currentOperation' = CicStart(lines[lineIdx + 1], debitX, creditX).op
               /\ UNCHANGED <<ppc, input, lines, thrown, debitX, creditX, inCardSection, cicRest>>

\* parseAmountFR raises on the text of the amount item: parse raises
CicStartThrows == /\ CicAt("threw")
                  /\ ppc' = "threw"
                  /\ thrown' = "Invalid amount"
                  /\ UNCHANGED <<input, lines, lineIdx, transactions, currentOperation, debitX, creditX, inCardSection, cicRest>>

\* any other line while an operation is pending: it is added to its label and to its raw lines
CicContinueRow == /\ ~currentOperation.isNull
                  /\ CicAt("other")
                  /\ lineIdx' = lineIdx + 1
                  /\ currentOperation' = [currentOperation EXCEPT !.labelParts = Append(@, lines[lineIdx + 1].text), !.raw = Append(@, lines[lineIdx + 1].text)]
                  /\ UNCHANGED <<ppc, input, lines, thrown, transactions, debitX, creditX, inCardSection, cicRest>>

\* any other line while no operation is pending: nothing is done with it
CicOrphanLine == /\ currentOperation.isNull
                 /\ CicAt("other")
                 /\ lineIdx' = lineIdx + 1
                 /\ UNCHANGED <<ppc, input, lines, thrown, transactions, currentOperation, debitX, creditX, inCardSection, cicRest>>

\* after the loop: flush(), and the transactions are returned when there is one
CicReturn == /\ ppc = "loop"
             /\ lineIdx = Len(lines)
             /\ CicFlushed(transactions, currentOperation) # <<>>
             /\ transactions' = CicFlushed(transactions, currentOperation)
             /\ currentOperation' = NoOperation
             /\ ppc' = "done"
             /\ UNCHANGED <<input, lines, lineIdx, thrown, debitX, creditX, inCardSection, cicRest>>

\* after the loop: no transaction, parse raises
CicNoTransaction == /\ ppc = "loop"
                    /\ lineIdx = Len(lines)
                    /\ CicFlushed(transactions, currentOperation) = <<>>
                    /\ ppc' = "threw"
                    /\ thrown' = "Format PDF non reconnu CIC"
                    /\ UNCHANGED <<input, lines, lineIdx, transactions, currentOperation, debitX, creditX, inCardSection, cicRest>>

NextCic == CicRejectText \/ CicLoadFails \/ CicExtractLines \/ CicCardSection \/ CicHeaderLine \/ CicCardLine \/ CicSkipLine \/ CicStartRow \/ CicStartThrows \/ CicContinueRow \/ CicOrphanLine \/ CicReturn \/ CicNoTransaction

SpecCic == InitCic /\ [][NextCic]_vars

\* C17: given a text, cicParser.parse raises the error that asks for the raw PDF, and
\* it does so before any line is extracted or read: it holds no line, has read none,
\* and holds no transaction, no pending operation, no column.
C17_TextIsRefused == input.type = "string" => /\ ppc \in {"start", "threw"}
                                              /\ ppc = "threw" => thrown = "Le parsing CIC requiert le PDF brut."
                                              /\ lines = <<>>
                                              /\ lineIdx = 0
                                              /\ transactions = <<>>
                                              /\ currentOperation = NoOperation
                                              /\ debitX = NoColumnX
                                              /\ creditX = NoColumnX
                                              /\ ~inCardSection

\* the text of a statement that holds a header and two rows was refused
C17_Witness == /\ input.type = "string"
               /\ ppc = "threw"
               /\ thrown = "Le parsing CIC requiert le PDF brut."
               /\ Len(LongDateTokens(input.text, 0)) >= 4
               /\ Includes(ToUpperCase(input.text), S_DEBIT_UPPER)

(***************************************************************************)
(* inferAmountSign of bnp.ts, called on its own: an amount, the raw line   *)
(* of a row and the section the row is read in.                            *)
(***************************************************************************)
\* sections: none, with a credit hint, with a debit hint, with both, with neither
SignSections == {<<>>, <<"V", "I", "R", "E", "M", "E", "N", "T", "S", " ", "R", "E", "C", "U", "S">>, <<"C", "H", "E", "Q", "U", "E", "S", " ", "E", "M", "I", "S">>, <<"R", "E", "M", "I", "S", "E", "S", " ", "D", "E", " ", "C", "A", "R", "T", "E", "S">>, <<"V", "i", "r", "e", "m", "e", "n", "t", "s", " ", "r", "e", "c", "u", "s">>, <<"A", "U", "T", "R", "E", "S", " ", "O", "P", "E", "R", "A", "T", "I", "O", "N", "S">>, <<"P", "R", "E", "L", "E", "V", "E", "M", "E", "N", "T", "S", ",", " ", "A", "M", "O", "R", "T", "I", "S", "S", "E", "M", "E", "N", "T", "S", " ", "D", "E", " ", "P", "R", "E", "T", "S">>}

\* raw lines: with a credit hint, with a debit hint, with both, with neither
SignLines == {<<"0", "5", ".", "0", "6", ".", "2", "5", " ", "V", "I", "R", " ", "R", "E", "C", "U", "S", " ", "D", "U", "P", "O", "N", "T", " ", "0", "5", ".", "0", "6", ".", "2", "5", " ", "1", "2", ",", "5", "0">>, <<"0", "6", ".", "0", "6", ".", "2", "5", " ", "F", "R", "A", "I", "S", " ", "D", "E", " ", "T", "E", "N", "U", "E", " ", "0", "6", ".", "0", "6", ".", "2", "5", " ", "1", "2", ",", "5", "0">>, <<"0", "7", ".", "0", "6", ".", "2", "5", " ", "R", "E", "M", "B", "O", "U", "R", "S", "E", "M", "E", "N", "T", " ", "C", "A", "R", "T", "E", " ", "0", "7", ".", "0", "6", ".", "2", "5", " ", "1", "2", ",", "5", "0">>, <<"0", "8", ".", "0", "6", ".", "2", "5", " ", "L", "O", "Y", "E", "R", " ", "0", "8", ".", "0", "6", ".", "2", "5", " ", "1", "2", ",", "5", "0">>, <<"0", "9", ".", "0", "6", ".", "2", "5", " ", "v", "e", "r", "s", "e", "m", "e", "n", "t", " ", "0", "9", ".", "0", "6", ".", "2", "5", " ", "1", "2", ",", "5", "0">>, <<"1", "0", ".", "0", "6", ".", "2", "5", " ", "R", "e", "t", "r", "a", "i", "t", " ", "D", "A", "B", " ", "1", "0", ".", "0", "6", ".", "2", "5", " ", "1", "2", ",", "5", "0">>}

\* amounts as parseAmountFR gives them
SignAmounts == {parseAmountFR(<<"1", "2", ",", "5", "0">>).value, parseAmountFR(<<"1", " ", "2", "0", "0", ",", "0", "0">>).value, parseAmountFR(<<"0", ",", "0", "7">>).value, parseAmountFR(<<"-", "3", ",", "0", "0">>).value}

SignInputs == {[amount |-> a, rawLine |-> l, section |-> s] : a \in SignAmounts, l \in SignLines, s \in SignSections}

signRest == <<routeVars, transactions, pdfText, now, lines, lineIdx, thrown, sgVars, bnpVars, bookVars, callVars, cicVars, lclVars, uiVars>>

InitSign == /\ RouteIdle
            /\ LclIdle
            /\ UiIdle
            /\ SgIdle
            /\ CicIdle
            /\ BnpIdle
            /\ BookIdle
            /\ CallsIdle
            /\ transactions = <<>>
            /\ ppc = "call"
            /\ pdfText = <<>>
            /\ now = 0
            /\ lines = <<>>
            /\ lineIdx = 0
            /\ thrown = ""
            /\ input \in SignInputs
            /\ output = <<>>

\* inferAmountSign(amount, rawLine, section)
CallInferAmountSign == /\ ppc = "call"
                       /\ ppc' = "done"
                       /\ output' = Gave("inferAmountSign", FALSE, inferAmountSign(input.amount, input.rawLine, input.section))
                       /\ UNCHANGED <<input, signRest>>

NextSign == CallInferAmountSign

SpecSign == InitSign /\ [][NextSign]_vars

\* upper holds one of the hints
HasHint(upper, hints) == \E h \in 1..Len(hints) : \E i \in 0..Len(upper) : OccursAt(upper, hints[h], i)

\* the sign the section chooses: 1 for a credit hint, else -1 for a debit hint, 0 when it holds no hint
SectionSign(section) == IF HasHint(ToUpperCase(section), BNP_CREDIT_HINTS) THEN 1 ELSE IF HasHint(ToUpperCase(section), BNP_DEBIT_HINTS) THEN -1 ELSE 0

\* C21: inferAmountSign gives the amount with the sign the section chooses when the
\* section holds a hint, a credit hint going before a debit hint, whatever the line
\* holds; when the section holds no hint it gives +amount for a credit hint on the
\* line, and -amount otherwise.
C21_SectionHintsFirst == ppc = "done" => output.value = Times(input.amount, IF SectionSign(input.section) # 0 THEN SectionSign(input.section) ELSE IF HasHint(ToUpperCase(input.rawLine), BNP_CREDIT_HINTS) THEN 1 ELSE -1)

\* a debit section and a line with a credit hint gave the amount negated
C21_Witness == /\ ppc = "done"
               /\ SectionSign(input.section) = -1
               /\ HasHint(ToUpperCase(input.rawLine), BNP_CREDIT_HINTS)
               /\ input.amount.m > 0
               /\ output.value = Times(input.amount, -1)

(***************************************************************************)
(* The Banque Populaire parser (banque-populaire.ts): parseBpText over the *)
(* flat text of a statement.                                               *)
(***************************************************************************)
\* START_MARKERS and END_MARKERS of banque-populaire.ts
BP_START_MARKERS == <<<<"D", "A", "T", "E", "C", "O", "M", "P", "T", "A">>, <<"D", "A", "T", "E", "C", "O", "M", "P", "T", "A", "D", "A", "T", "E", "O", "P", "E", "R", "A", "T", "I", "O", "N">>>>

BP_END_MARKERS == <<<<"T", "O", "T", "A", "L", " ", "D", "E", "S", " ", "M", "O", "U", "V", "E", "M", "E", "N", "T", "S">>, <<"D", "E", "T", "A", "I", "L", " ", "D", "E", " ", "V", "O", "S", " ", "M", "O", "U", "V", "E", "M", "E", "N", "T", "S">>, <<"D", "E", "T", "A", "I", "L", " ", "D", "E", "S", " ", "M", "O", "U", "V", "E", "M", "E", "N", "T", "S">>>>

\* the chunks the loop skips
BP_BALANCE_WORDS == <<<<"S", "O", "L", "D", "E", " ", "C", "R", "E", "D", "I", "T", "E", "U", "R">>, <<"S", "O", "L", "D", "E", " ", "D", "E", "B", "I", "T", "E", "U", "R">>, <<"T", "O", "T", "A", "L", " ", "D", "E", "S", " ", "M", "O", "U", "V", "E", "M", "E", "N", "T", "S">>>>

\* /€|EUR/gi; the euro sign is one character
EURO == "euro"

BP_CURRENCY == <<<<EURO>>, <<"E", "U", "R">>>>

\* /ƒ'ª/gi, three characters
BP_MOJIBAKE == <<<<"fhook", "'", "ordf">>>>

\* U+2212
MINUS == "minus"

\* the first position of one of the markers in upper, -1 when there is none
BpFirstMarker(upper, markers) == IF \A k \in 1..Len(markers) : IndexOf(upper, markers[k]) = -1 THEN -1 ELSE CHOOSE i \in {IndexOf(upper, markers[k]) : k \in 1..Len(markers)} \ {-1} : \A k \in 1..Len(markers) : IndexOf(upper, markers[k]) \in {-1} \cup (i..Len(upper))

\* sliced.slice(0, endIndex)
BpSliced(sliced, endIndex) == IF endIndex = -1 THEN sliced ELSE Slice(sliced, 0, endIndex)

\* a variant of BpTableFrom that takes the whole text when no start marker is found
BpTableOrText(pdfText0, startIndex) == IF startIndex = -1 THEN pdfText0 ELSE BpSliced(SliceFrom(pdfText0, startIndex), BpFirstMarker(ToUpperCase(SliceFrom(pdfText0, startIndex)), BP_END_MARKERS))

BpTableFrom(pdfText0, startIndex) == IF startIndex = -1 THEN <<>> ELSE BpSliced(SliceFrom(pdfText0, startIndex), BpFirstMarker(ToUpperCase(SliceFrom(pdfText0, startIndex)), BP_END_MARKERS))

\* extractTableText of banque-populaire.ts
BpExtractTableText(pdfText0) == BpTableFrom(pdfText0, BpFirstMarker(ToUpperCase(pdfText0), BP_START_MARKERS))

\* /AU\s+(\d{2}\/\d{2}\/\d{4})/i matches at position i of s
IsAuDateAt(s, i) == /\ i + 3 <= Len(s)
                    /\ ToUpperChar(s[i + 1]) = "A"
                    /\ ToUpperChar(s[i + 2]) = "U"
                    /\ RunLength(s, i + 2, WhiteSpace) >= 1
                    /\ IsLongDate(s, i + 2 + RunLength(s, i + 2, WhiteSpace))

\* the year of the date that follows AU at position i
BpYearAt(s, i) == ToNat(Slice(s, i + 8 + RunLength(s, i + 2, WhiteSpace), i + 12 + RunLength(s, i + 2, WhiteSpace)))

\* inferYear: the year of the first "au dd/mm/yyyy", else the current UTC year
inferYear(pdfText0, currentYear) == IF \A i \in 0..(Len(pdfText0) - 1) : ~IsAuDateAt(pdfText0, i) THEN currentYear ELSE BpYearAt(pdfText0, CHOOSE i \in 0..(Len(pdfText0) - 1) : IsAuDateAt(pdfText0, i) /\ \A j \in 0..(i - 1) : ~IsAuDateAt(pdfText0, j))

\* s.replace(/\n+/g, " ")
NewlinesToSpace(s) == [i \in 1..Len(s) |-> IF s[i] = "\n" THEN " " ELSE s[i]]

\* normalizeSpaces(tableText.replace(/\r/g, "\n").replace(/\n+/g, " "))
BpNormalizedTable(tableText) == normalizeSpaces(NewlinesToSpace(CollapseNewlines(ReplaceCr(tableText))))

\* [A-Z0-9]
IsUpperOrDigit(c) == IsUpper(c) \/ IsDigit(c)

\* /(\d{2}\/\d{2})(?=\s+(?!\d{2}\/\d{2})[A-Z0-9])/ matches at position i of s, which
\* ws white spaces follow
BpIsStart(s, i, ws) == /\ IsDDMM(s, i)
                       /\ ws >= 1
                       /\ i + 5 + ws < Len(s)
                       /\ IsUpperOrDigit(s[i + 5 + ws + 1])
                       /\ ~IsDDMM(s, i + 5 + ws)

BpStartsAt(s, i) == BpIsStart(s, i, RunLength(s, i + 5, WhiteSpace))

\* the indexes of the matches of the pattern in s, searched from position i on
RECURSIVE BpStartMatches(_, _)
BpStartMatchesAt(s, j) == <<j>> \o BpStartMatches(s, j + 5)

BpStartMatches(s, i) == IF \A j \in i..(Len(s) - 1) : ~BpStartsAt(s, j) THEN <<>> ELSE BpStartMatchesAt(s, CHOOSE j \in i..(Len(s) - 1) : BpStartsAt(s, j) /\ \A k \in i..(j - 1) : ~BpStartsAt(s, k))

\* the chunks of the loop: normalizeSpaces(normalizedTable.slice(startIndex, endIndex))
BpChunksOf(s, starts) == [i \in 1..Len(starts) |-> normalizeSpaces(Slice(s, starts[i], IF i < Len(starts) THEN starts[i + 1] ELSE Len(s)))]

BpChunks(normalizedTable) == BpChunksOf(normalizedTable, BpStartMatches(normalizedTable, 0))

\* the indexes of the matches of /\d{2}\/\d{2}/g in s, searched from position i on
RECURSIVE ShortDateMatches(_, _)
ShortDateMatchesAt(s, j) == <<j>> \o ShortDateMatches(s, j + 5)

ShortDateMatches(s, i) == IF \A j \in i..(Len(s) - 1) : ~IsDDMM(s, j) THEN <<>> ELSE ShortDateMatchesAt(s, CHOOSE j \in i..(Len(s) - 1) : IsDDMM(s, j) /\ \A k \in i..(j - 1) : ~IsDDMM(s, k))

\* the chunk holds one of the balance words
BpIsBalance(upper) == \E k \in 1..Len(BP_BALANCE_WORDS) : Includes(upper, BP_BALANCE_WORDS[k])

\* the length of the match of /([-\u2212])?\s*(\d{1,3}(?:[ \u00A0.]\d{3})*,\d{2})/ at
\* position i of s, 0 when there is none: a sign, white space, an amount
BpSignLength(s, i) == IF i < Len(s) /\ s[i + 1] \in {"-", MINUS} THEN 1 ELSE 0

BpAmountLengthFrom(s, i, sign, ws) == IF AmountFRLength(s, i + sign + ws) > 0 THEN sign + ws + AmountFRLength(s, i + sign + ws) ELSE 0

BpAmountLength(s, i) == BpAmountLengthFrom(s, i, BpSignLength(s, i), RunLength(s, i + BpSignLength(s, i), WhiteSpace))

\* afterValeur.match(...): the index of the leftmost match, -1 when there is none
BpAmountIndex(s) == IF \A i \in 0..(Len(s) - 1) : BpAmountLength(s, i) = 0 THEN -1 ELSE CHOOSE i \in 0..(Len(s) - 1) : BpAmountLength(s, i) > 0 /\ \A j \in 0..(i - 1) : BpAmountLength(s, j) = 0

\* s.replace(pattern, " ") for a pattern that is one of some literals, whatever the
\* case, from position i on
RECURSIVE BlankLiterals(_, _, _)
BlankLiteralsAt(s, i, literals, j) == Slice(s, i, j) \o <<" ">> \o BlankLiterals(s, j + LiteralLength(s, j, literals), literals)

BlankLiterals(s, i, literals) == IF \A j \in i..(Len(s) - 1) : LiteralLength(s, j, literals) = 0 THEN SliceFrom(s, i) ELSE BlankLiteralsAt(s, i, literals, CHOOSE j \in i..(Len(s) - 1) : LiteralLength(s, j, literals) > 0 /\ \A k \in i..(j - 1) : LiteralLength(s, k, literals) = 0)

\* const tail = normalizeSpaces(tailRaw.replace(/ƒ'ª/gi, " ").replace(/€|EUR/gi, " "))
BpTail(tailRaw) == normalizeSpaces(BlankLiterals(BlankLiterals(tailRaw, 0, BP_MOJIBAKE), 0, BP_CURRENCY))

\* normalizeSpaces([labelMain, tail].filter((value) => value.length > 0).join(" "))
BpLabel(labelMain, tail) == normalizeSpaces(Join(SelectSeq(<<labelMain, tail>>, LAMBDA value : Len(value) > 0), <<" ">>))

\* parseShortDate of banque-populaire.ts
BpParseShortDate(token, year) == DateUTC(year, ToNat(SubSeq(token, 4, 5)) - 1, ToNat(SubSeq(token, 1, 2)))

\* the row of a chunk whose dates are at the indexes dates, the second one at
\* operation and the value date at valeur, and in which the amount is matched at the
\* index amount of what follows the value date, with the sign and the white space given
BpRowWith(chunk, year, dates, operation, valeur, amount, sign, ws) == [dateOperation |-> BpParseShortDate(Slice(chunk, operation, operation + 5), year), dateValeur |-> BpParseShortDate(Slice(chunk, valeur, valeur + 5), year), label |-> BpLabel(Slice(chunk, dates[1] + 5, operation), BpTail(SliceFrom(chunk, amount + BpAmountLength(chunk, amount)))), amount |-> Times(parseAmountFR(Slice(chunk, amount + sign + ws, amount + BpAmountLength(chunk, amount))).value, IF sign = 1 THEN -1 ELSE 1)]

BpRowAt(chunk, year, dates, valeur, amount) == BpRowWith(chunk, year, dates, dates[2], valeur, amount, BpSignLength(chunk, amount), RunLength(chunk, amount + BpSignLength(chunk, amount), WhiteSpace))

\* the index in the chunk of the value date: dateMatches[2] ?? dateMatches[1]
BpValeurIndex(dates) == IF Len(dates) >= 3 THEN dates[3] ELSE dates[2]

\* the index in the chunk of the match of the amount, -1 when there is none
BpAmountIn(chunk, valeur) == IF BpAmountIndex(SliceFrom(chunk, valeur + 5)) = -1 THEN -1 ELSE valeur + 5 + BpAmountIndex(SliceFrom(chunk, valeur + 5))

BpRow(chunk, year, dates) == BpRowAt(chunk, year, dates, BpValeurIndex(dates), BpAmountIn(chunk, BpValeurIndex(dates)))

\* what the loop does with a chunk
BpKindOf(chunk, dates) == IF BpIsBalance(ToUpperCase(chunk)) THEN "balance"
                          ELSE IF Len(dates) < 2 THEN "dates"
                          ELSE IF BpAmountIn(chunk, BpValeurIndex(dates)) = -1 THEN "amount"
                          ELSE "row"

BpKind(chunk) == BpKindOf(chunk, ShortDateMatches(chunk, 0))

\* 'Releve au 30/04/2024\nDATECOMPTA LIBELLE'
P_HEAD_YEAR == <<"R", "e", "l", "e", "v", "e", " ", "a", "u", " ", "3", "0", "/", "0", "4", "/", "2", "0", "2", "4", "\n", "D", "A", "T", "E", "C", "O", "M", "P", "T", "A", " ", "L", "I", "B", "E", "L", "L", "E">>

\* 'DATECOMPTADATEOPERATION LIBELLE'
P_HEAD == <<"D", "A", "T", "E", "C", "O", "M", "P", "T", "A", "D", "A", "T", "E", "O", "P", "E", "R", "A", "T", "I", "O", "N", " ", "L", "I", "B", "E", "L", "L", "E">>

\* 'Banque Populaire au 30/04/2024'
P_NO_HEAD == <<"B", "a", "n", "q", "u", "e", " ", "P", "o", "p", "u", "l", "a", "i", "r", "e", " ", "a", "u", " ", "3", "0", "/", "0", "4", "/", "2", "0", "2", "4">>

\* '17/04 17/04 17/04 ACHAT X 12,34'
P_ROW_THREE == <<"1", "7", "/", "0", "4", " ", "1", "7", "/", "0", "4", " ", "1", "7", "/", "0", "4", " ", "A", "C", "H", "A", "T", " ", "X", " ", "1", "2", ",", "3", "4">>

\* '18/04 18/04 18/04 ACHAT Y -5,00'
P_ROW_THREE_MINUS == <<"1", "8", "/", "0", "4", " ", "1", "8", "/", "0", "4", " ", "1", "8", "/", "0", "4", " ", "A", "C", "H", "A", "T", " ", "Y", " ", "-", "5", ",", "0", "0">>

\* '19/04 CARTE Z 19/04 20/04 -7,50 EUR REF'
P_ROW_LABEL_FIRST == <<"1", "9", "/", "0", "4", " ", "C", "A", "R", "T", "E", " ", "Z", " ", "1", "9", "/", "0", "4", " ", "2", "0", "/", "0", "4", " ", "-", "7", ",", "5", "0", " ", "E", "U", "R", " ", "R", "E", "F">>

\* '21/04 VIR RECU 21/04 22/04 1 000,00'
P_ROW_LABEL_PLUS == <<"2", "1", "/", "0", "4", " ", "V", "I", "R", " ", "R", "E", "C", "U", " ", "2", "1", "/", "0", "4", " ", "2", "2", "/", "0", "4", " ", "1", " ", "0", "0", "0", ",", "0", "0">>

\* '23/04 PRLV 24/04 (minus)3,00(euro)'
P_ROW_TWO_DATES == <<"2", "3", "/", "0", "4", " ", "P", "R", "L", "V", " ", "2", "4", "/", "0", "4", " ", MINUS, "3", ",", "0", "0", EURO>>

\* '30/04 Solde crediteur 30/04 9,00'
P_ROW_BALANCE == <<"3", "0", "/", "0", "4", " ", "S", "o", "l", "d", "e", " ", "c", "r", "e", "d", "i", "t", "e", "u", "r", " ", "3", "0", "/", "0", "4", " ", "9", ",", "0", "0">>

\* '25/04 NOTE 25/04 25/04'
P_ROW_NO_AMOUNT == <<"2", "5", "/", "0", "4", " ", "N", "O", "T", "E", " ", "2", "5", "/", "0", "4", " ", "2", "5", "/", "0", "4">>

\* 'TOTAL DES MOUVEMENTS 26/04 X 26/04 1,00'
P_END == <<"T", "O", "T", "A", "L", " ", "D", "E", "S", " ", "M", "O", "U", "V", "E", "M", "E", "N", "T", "S", " ", "2", "6", "/", "0", "4", " ", "X", " ", "2", "6", "/", "0", "4", " ", "1", ",", "0", "0">>

\* rows of a Banque Populaire statement
MaxBpRows == 2

BpHeads == {P_HEAD_YEAR, P_HEAD, P_NO_HEAD}

BpFragments == {P_ROW_THREE, P_ROW_THREE_MINUS, P_ROW_LABEL_FIRST, P_ROW_LABEL_PLUS, P_ROW_TWO_DATES, P_ROW_BALANCE, P_ROW_NO_AMOUNT, P_END}

\* the texts given to parseBpText: a head, then at most MaxBpRows rows, one per line
BpTexts == {Join(<<head>> \o fs, <<"\n">>) : head \in BpHeads, fs \in SeqsUpTo(BpFragments, MaxBpRows)}

bpRest == <<routeVars, pdfText, now, sgVars, auxVars>>

InitBp == /\ RouteIdle
          /\ SgIdle
          /\ AuxIdle
          /\ transactions = <<>>
          /\ ppc = "start"
          /\ pdfText \in BpTexts
          /\ now \in CurrentYears
          /\ lines = <<>>
          /\ lineIdx = 0
          /\ thrown = ""

\* if (!tableText) throw
BpThrowNoTable == /\ ppc = "start"
                  /\ BpExtractTableText(pdfText) = <<>>
                  /\ ppc' = "threw"
                  /\ thrown' = "Format PDF non reconnu Banque Populaire"
                  /\ UNCHANGED <<lines, lineIdx, transactions, bpRest>>

\* if (startMatches.length === 0) throw
BpThrowNoStart == /\ ppc = "start"
                  /\ BpExtractTableText(pdfText) # <<>>
                  /\ BpChunks(BpNormalizedTable(BpExtractTableText(pdfText))) = <<>>
                  /\ ppc' = "threw"
                  /\ thrown' = "Format PDF non reconnu Banque Populaire"
                  /\ UNCHANGED <<lines, lineIdx, transactions, bpRest>>

\* parseBpText up to the loop: the table, and the chunks the start matches cut it into
BpTable == /\ ppc = "start"
           /\ BpExtractTableText(pdfText) # <<>>
           /\ BpChunks(BpNormalizedTable(BpExtractTableText(pdfText))) # <<>>
           /\ ppc' = "loop"
           /\ lines' = BpChunks(BpNormalizedTable(BpExtractTableText(pdfText)))
           /\ UNCHANGED <<lineIdx, thrown, transactions, bpRest>>

\* the loop is at a chunk of this kind
BpAt(kind) == /\ ppc = "loop"
              /\ lineIdx < Len(lines)
              /\ BpKind(lines[lineIdx + 1]) = kind

\* a chunk with a balance or a total: continue
BpSkipBalance == /\ BpAt("balance")
                 /\ lineIdx' = lineIdx + 1
                 /\ UNCHANGED <<ppc, lines, thrown, transactions, bpRest>>

\* if (dateMatches.length < 2) continue
BpSkipDates == /\ BpAt("dates")
               /\ lineIdx' = lineIdx + 1
               /\ UNCHANGED <<ppc, lines, thrown, transactions, bpRest>>

\* if (!amountMatch || amountMatch.index === undefined) continue
BpSkipAmount == /\ BpAt("amount")
                /\ lineIdx' = lineIdx + 1
                /\ UNCHANGED <<ppc, lines, thrown, transactions, bpRest>>

\* transactions.push({...})
BpEmitRow == /\ BpAt("row")
             /\ lineIdx' = lineIdx + 1
             /\ transactions' = Append(transactions, BpRow(lines[lineIdx + 1], inferYear(pdfText, now), ShortDateMatches(lines[lineIdx + 1], 0)))
             /\ UNCHANGED <<ppc, lines, thrown, bpRest>>

\* return transactions
BpReturn == /\ ppc = "loop"
            /\ lineIdx = Len(lines)
            /\ ppc' = "done"
            /\ UNCHANGED <<lines, lineIdx, thrown, transactions, bpRest>>

NextBp == BpThrowNoTable \/ BpThrowNoStart \/ BpTable \/ BpSkipBalance \/ BpSkipDates \/ BpSkipAmount \/ BpEmitRow \/ BpReturn

SpecBp == InitBp /\ [][NextBp]_vars

\* a row of three short dates, a label and an amount starts at position i of s
IsThreeDateRow(s, i) == /\ IsDDMM(s, i)
                        /\ i + 19 <= Len(s)
                        /\ s[i + 6] = " "
                        /\ IsDDMM(s, i + 6)
                        /\ s[i + 12] = " "
                        /\ IsDDMM(s, i + 12)
                        /\ s[i + 18] = " "
                        /\ IsUpper(s[i + 19])
                        /\ \E a \in (i + 19)..(Len(s) - 1) : AmountFRLength(s, a) > 0 /\ \A j \in (i + 18)..a : ~IsDDMM(s, j)

\* the positions of the rows of three dates of s, in their order
ThreeDateRows(s) == SelectSeq([i \in 1..Len(s) |-> i - 1], LAMBDA i : IsThreeDateRow(s, i))

\* every short date of s is one of the three dates of such a row
OnlyThreeDateRows(s, rows) == /\ rows # <<>>
                              /\ \A j \in 0..(Len(s) - 1) : IsDDMM(s, j) => \E k \in 1..Len(rows) : j \in {rows[k], rows[k] + 6, rows[k] + 12}

\* the position of the amount of the row at position i of s
RowAmountAt(s, i) == CHOOSE a \in (i + 19)..(Len(s) - 1) : AmountFRLength(s, a) > 0 /\ \A b \in (i + 19)..(a - 1) : AmountFRLength(s, b) = 0

\* a '-' or a U+2212 precedes the amount at position a of s
MinusPrecedes(s, a) == \E b \in 1..a : s[b] \in {"-", MINUS} /\ \A c \in (b + 1)..a : IsSpace(s[c])

\* the amount the row at position i of s states
RowAmountStated(s, a) == Times(parseAmountFR(Slice(s, a, a + AmountFRLength(s, a))).value, IF MinusPrecedes(s, a) THEN -1 ELSE 1)

RowsAsStated(s, rows, year) == /\ Len(transactions) = Len(rows)
                               /\ \A k \in 1..Len(rows) : /\ k <= Len(transactions)
                                                          /\ transactions[k].dateOperation = BpParseShortDate(Slice(s, rows[k] + 6, rows[k] + 11), year)
                                                          /\ transactions[k].amount = RowAmountStated(s, RowAmountAt(s, rows[k]))

\* C22: when the table is made of rows of three short dates, a label and an amount,
\* parseBpText returns one transaction per row, dated at the second date of the row in
\* the inferred year, with the amount of the row, negative iff a minus precedes it.
C22_ThreeDateRows == (ppc = "done" /\ OnlyThreeDateRows(BpNormalizedTable(BpExtractTableText(pdfText)), ThreeDateRows(BpNormalizedTable(BpExtractTableText(pdfText))))) => RowsAsStated(BpNormalizedTable(BpExtractTableText(pdfText)), ThreeDateRows(BpNormalizedTable(BpExtractTableText(pdfText))), inferYear(pdfText, now))

\* the 0-based positions of line where a sign, a French amount and " EUR" end the line
QontoStatedSigns(line) == {i \in 7..(Len(line) - 1) : /\ line[i + 1] \in {"+", "-"}
                                                    /\ line[i] = " "
                                                    /\ AmountFRLength(line, i + 1) > 0
                                                    /\ Slice(line, i + 1 + AmountFRLength(line, i + 1), Len(line)) = <<" ", "E", "U", "R">>}

\* line reads dd/mm <label> <sign><French amount> EUR and is not one of the filtered rows
QontoIsStatedRow(line) == /\ ~QontoSkips(line)
                          /\ IsUpper(line[7])
                          /\ QontoStatedSigns(line) # {}

\* the signed amount such a line states, its sign at position i
QontoStatedAmount(line, i) == Times(parseAmountFR(Slice(line, i + 1, i + 1 + AmountFRLength(line, i + 1))).value, IF line[i + 1] = "-" THEN -1 ELSE 1)

\* C23: every Qonto line of the form dd/mm <label> <sign><French amount> EUR, space
\* thousands separators included, yields exactly one transaction, whose amount is the
\* full amount signed by the sign of the line.
C23_SignedFrenchAmount == (ppc = "done" /\ \A l \in 1..Len(lines) : QontoIsStatedRow(lines[l])) => (Len(transactions) = Len(lines) /\ \A l \in 1..Len(lines) : l <= Len(transactions) /\ \A i \in QontoStatedSigns(lines[l]) : transactions[l].amount = QontoStatedAmount(lines[l], i))

(***************************************************************************)
(* The Societe Generale parser (sg.ts): sgParser.parse, and parseSgText    *)
(* over the flat text of a statement.                                      *)
(***************************************************************************)
\* U+00B0 and U+00BA, one character each
DEGREE == "deg"

ORDINAL == "ordm"

\* START_MARKER and END_MARKERS of sg.ts
SG_START_MARKER == <<"D", "A", "T", "E", " ", "V", "A", "L", "E", "U", "R">>

SG_END_MARKERS == <<<<"T", "O", "T", "A", "U", "X", " ", "D", "E", "S", " ", "M", "O", "U", "V", "E", "M", "E", "N", "T", "S">>, <<"N", "O", "U", "V", "E", "A", "U", " ", "S", "O", "L", "D", "E">>>>

\* stopMarkers of parseSgText
SG_STOP_MARKERS == <<<<"S", "U", "I", "T", "E", " ", ">", ">", ">">>, <<"N", DEGREE, " ", "A", "D", "E", "M", "E">>, <<"N", ORDINAL, " ", "A", "D", "E", "M", "E">>, <<"R", "E", "L", "E", "V", "E", " ", "D", "E", " ", "C", "O", "M", "P", "T", "E">>, <<"R", "E", "L", "E", "V", " ", "D", "E", " ", "C", "O", "M", "P", "T", "E">>, <<"S", "O", "C", "I", "E", "T", "E", " ", "G", "E", "N", "E", "R", "A", "L", "E">>, <<"P", "A", "G", "E", " ">>>>

\* the heads and the tails of the page furniture parseSgText blanks out
SG_ADEME_HEADS == <<<<"N", ORDINAL, " ", "A", "D", "E", "M", "E">>, <<"N", DEGREE, " ", "A", "D", "E", "M", "E">>>>

SG_ADEME_TAIL == <<"D", "A", "T", "E", " ", "V", "A", "L", "E", "U", "R", " ", "N", "A", "T", "U", "R", "E", " ", "D", "E", " ", "L", "'", "O", "P", E_ACUTE, "R", "A", "T", "I", "O", "N", " ", "D", E_ACUTE, "B", "I", "T", " ", "C", "R", E_ACUTE, "D", "I", "T">>

SG_NATURE_TAIL == <<"D", "A", "T", "E", " ", "V", "A", "L", "E", "U", "R", " ", "N", "A", "T", "U", "R", "E">>

S_SUITE == <<"S", "U", "I", "T", "E">>

S_ARROWS == <<">", ">", ">">>

\* the least of the positions of the markers in upper that are below limit, limit when
\* there is none
SgFirstBelow(upper, markers, limit) == IF \A k \in 1..Len(markers) : IndexOf(upper, markers[k]) = -1 \/ IndexOf(upper, markers[k]) >= limit THEN limit ELSE CHOOSE i \in {IndexOf(upper, markers[k]) : k \in 1..Len(markers)} \ {-1} : \A k \in 1..Len(markers) : IndexOf(upper, markers[k]) = -1 \/ i <= IndexOf(upper, markers[k])

\* sliced.slice(0, endIndex) for the sliced text of extractTableText
SgSliced(sliced) == Slice(sliced, 0, SgFirstBelow(ToUpperCase(sliced), SG_END_MARKERS, Len(sliced)))

SgTableFrom(pdfText0, startIndex) == IF startIndex = -1 THEN <<>> ELSE SgSliced(SliceFrom(pdfText0, startIndex + Len(SG_START_MARKER)))

\* extractTableText of sg.ts
SgExtractTableText(pdfText0) == SgTableFrom(pdfText0, IndexOf(ToUpperCase(pdfText0), SG_START_MARKER))

\* one of heads occurs at position i of s, whatever the case, and tail occurs after it
SgSpanAt(s, i, heads, tail) == \E h \in 1..Len(heads) : /\ OccursAtIgnoringCase(s, heads[h], i)
                                                        /\ \E j \in (i + Len(heads[h]))..Len(s) : OccursAtIgnoringCase(s, tail, j)

\* where the match of head[\s\S]*?tail that starts at position i ends: after the first
\* tail that follows the head
SgSpanEnd(s, i, n, tail) == Len(tail) + CHOOSE j \in (i + n)..Len(s) : OccursAtIgnoringCase(s, tail, j) /\ \A k \in (i + n)..(j - 1) : ~OccursAtIgnoringCase(s, tail, k)

\* s.replace(/head[\s\S]*?tail/gi, " "), from position i on; the heads have one length
RECURSIVE BlankSpans(_, _, _, _)
BlankSpansAt(s, i, p, heads, tail) == Slice(s, i, p) \o <<" ">> \o BlankSpans(s, SgSpanEnd(s, p, Len(heads[1]), tail), heads, tail)

BlankSpans(s, i, heads, tail) == IF \A p \in i..Len(s) : ~SgSpanAt(s, p, heads, tail) THEN SliceFrom(s, i) ELSE BlankSpansAt(s, i, CHOOSE p \in i..Len(s) : SgSpanAt(s, p, heads, tail) /\ \A q \in i..(p - 1) : ~SgSpanAt(s, q, heads, tail), heads, tail)

\* the length of the match of /SUITE\s*>>>/i at position i of s, 0 when there is none
SuiteLength(s, i) == IF OccursAtIgnoringCase(s, S_SUITE, i) /\ OccursAt(s, S_ARROWS, i + 5 + RunLength(s, i + 5, WhiteSpace)) THEN 8 + RunLength(s, i + 5, WhiteSpace) ELSE 0

\* s.replace(/SUITE\s*>>>/gi, " "), from position i on
RECURSIVE BlankSuite(_, _)
BlankSuiteAt(s, i, p) == Slice(s, i, p) \o <<" ">> \o BlankSuite(s, p + SuiteLength(s, p))

BlankSuite(s, i) == IF \A p \in i..Len(s) : SuiteLength(s, p) = 0 THEN SliceFrom(s, i) ELSE BlankSuiteAt(s, i, CHOOSE p \in i..Len(s) : SuiteLength(s, p) > 0 /\ \A q \in i..(p - 1) : SuiteLength(s, q) = 0)

\* the normalizedTable of parseSgText
SgNormalizedTable(tableText) == normalizeSpaces(BlankSuite(BlankSpans(BlankSpans(BlankSpans(NewlinesToSpace(CollapseNewlines(ReplaceCr(tableText))), 0, SG_ADEME_HEADS, SG_ADEME_TAIL), 0, <<S_SOCIETE_GENERALE>>, SG_NATURE_TAIL), 0, <<S_RELEVE_DE_COMPTE>>, SG_NATURE_TAIL), 0))

\* the length of the match of /(\d{2}\/\d{2}\/\d{4})\s*(\d{2}\/\d{2}\/\d{4})/ at position i
\* of s, 0 when there is none
SgEntryLength(s, i) == IF IsLongDate(s, i) /\ IsLongDate(s, i + 10 + RunLength(s, i + 10, WhiteSpace)) THEN 20 + RunLength(s, i + 10, WhiteSpace) ELSE 0

\* [...normalizedTable.matchAll(entryStartRegex)], as the positions of the matches
RECURSIVE SgEntryMatches(_, _)
SgEntryMatchesAt(s, p) == <<p>> \o SgEntryMatches(s, p + SgEntryLength(s, p))

SgEntryMatches(s, i) == IF \A p \in i..Len(s) : SgEntryLength(s, p) = 0 THEN <<>> ELSE SgEntryMatchesAt(s, CHOOSE p \in i..Len(s) : SgEntryLength(s, p) > 0 /\ \A q \in i..(p - 1) : SgEntryLength(s, q) = 0)

\* chunk.slice(0, cutIndex) at the first of the stop markers, normalized when cut
SgCut(chunk, cutIndex) == IF cutIndex = Len(chunk) THEN chunk ELSE normalizeSpaces(Slice(chunk, 0, cutIndex))

\* one entry of the loop: the text of the match, and the chunk before and after the cut
SgEntryOf(s, p, raw) == [match |-> Slice(s, p, p + SgEntryLength(s, p)), raw |-> raw, chunk |-> SgCut(raw, SgFirstBelow(ToUpperCase(raw), SG_STOP_MARKERS, Len(raw)))]

\* the entries of the loop of parseSgText, each up to the start of the next one
SgEntriesOf(s, starts) == [i \in 1..Len(starts) |-> SgEntryOf(s, starts[i], normalizeSpaces(Slice(s, starts[i], IF i < Len(starts) THEN starts[i + 1] ELSE Len(s))))]

SgEntries(normalizedTable) == SgEntriesOf(normalizedTable, SgEntryMatches(normalizedTable, 0))

\* the positions of the matches of the amount pattern in chunk
SgAmountMatches(chunk) == {i \in 0..(Len(chunk) - 1) : AmountFRLength(chunk, i) > 0}

\* the matches that no digit precedes
SgCandidates(chunk) == {i \in SgAmountMatches(chunk) : i = 0 \/ ~IsDigit(chunk[i])}

\* candidates.length ? candidates : amountMatches
SgPool(chunk) == IF SgCandidates(chunk) # {} THEN SgCandidates(chunk) ELSE SgAmountMatches(chunk)

\* pool.reduce(...): the match that ends last, the leftmost one among those
SgBest(chunk, pool) == CHOOSE i \in pool : \A j \in pool : j + AmountFRLength(chunk, j) < i + AmountFRLength(chunk, i) \/ (j + AmountFRLength(chunk, j) = i + AmountFRLength(chunk, i) /\ i <= j)

\* tail.includes("*") ? -1 : inferSign(chunk)
SgTextSign(chunk, amountEnd) == IF Includes(Slice(chunk, amountEnd, amountEnd + 3), <<"*">>) THEN -1 ELSE SgInferSign(chunk)

\* the transaction pushed for an entry whose amount starts at amountIndex
SgTextRowAt(entry, amountIndex, amountEnd) == [dateOperation |-> parseDateFRLong(LongDateTokens(entry.match, 0)[2]), dateValeur |-> parseDateFRLong(LongDateTokens(entry.match, 0)[1]), label |-> normalizeSpaces(Slice(entry.chunk, Len(entry.match), amountIndex)), amount |-> Times(parseAmountFR(Slice(entry.chunk, amountIndex, amountEnd)).value, SgTextSign(entry.chunk, amountEnd))]

SgTextRowFrom(entry, amountIndex) == SgTextRowAt(entry, amountIndex, amountIndex + AmountFRLength(entry.chunk, amountIndex))

SgTextRow(entry) == SgTextRowFrom(entry, SgBest(entry.chunk, SgPool(entry.chunk)))

\* what the loop does with an entry
SgTextKind(entry) == IF Includes(ToUpperCase(entry.raw), S_SOLDE_PRECEDENT) THEN "solde" ELSE IF SgAmountMatches(entry.chunk) = {} THEN "noAmount" ELSE "row"

\* the fragments the texts given to parseSgText are made of
\* 'Date Valeur Nature'
X_HEAD == <<"D", "a", "t", "e", " ", "V", "a", "l", "e", "u", "r", " ", "N", "a", "t", "u", "r", "e">>

\* 'Releve'
X_NO_HEAD == <<"R", "e", "l", "e", "v", "e">>

\* '01/03/2024 02/03/2024 CARTE X 100,05 200,00'
X_ROW_TWO == <<"0", "1", "/", "0", "3", "/", "2", "0", "2", "4", " ", "0", "2", "/", "0", "3", "/", "2", "0", "2", "4", " ", "C", "A", "R", "T", "E", " ", "X", " ", "1", "0", "0", ",", "0", "5", " ", "2", "0", "0", ",", "0", "0">>

\* '01/03/2024 02/03/2024 CARTE X 1,00 REF 200,00'
X_ROW_TWO_APART == <<"0", "1", "/", "0", "3", "/", "2", "0", "2", "4", " ", "0", "2", "/", "0", "3", "/", "2", "0", "2", "4", " ", "C", "A", "R", "T", "E", " ", "X", " ", "1", ",", "0", "0", " ", "R", "E", "F", " ", "2", "0", "0", ",", "0", "0">>

\* '01/03/2024 02/03/2024 VIR RECU Y 12,34 *'
X_ROW_STAR == <<"0", "1", "/", "0", "3", "/", "2", "0", "2", "4", " ", "0", "2", "/", "0", "3", "/", "2", "0", "2", "4", " ", "V", "I", "R", " ", "R", "E", "C", "U", " ", "Y", " ", "1", "2", ",", "3", "4", " ", "*">>

\* '03/03/202404/03/2024 VIR RECU Z 1 050,00'
X_ROW_CREDIT == <<"0", "3", "/", "0", "3", "/", "2", "0", "2", "4", "0", "4", "/", "0", "3", "/", "2", "0", "2", "4", " ", "V", "I", "R", " ", "R", "E", "C", "U", " ", "Z", " ", "1", " ", "0", "5", "0", ",", "0", "0">>

\* '05/03/2024 06/03/2024 CARTE W 7,00'
X_ROW_PLAIN == <<"0", "5", "/", "0", "3", "/", "2", "0", "2", "4", " ", "0", "6", "/", "0", "3", "/", "2", "0", "2", "4", " ", "C", "A", "R", "T", "E", " ", "W", " ", "7", ",", "0", "0">>

\* '05/03/2024 06/03/2024 REMISE CB *AB 8,00'
X_ROW_STAR_LABEL == <<"0", "5", "/", "0", "3", "/", "2", "0", "2", "4", " ", "0", "6", "/", "0", "3", "/", "2", "0", "2", "4", " ", "R", "E", "M", "I", "S", "E", " ", "C", "B", " ", "*", "A", "B", " ", "8", ",", "0", "0">>

\* '09/03/2024 10/03/2024 REF1234,56'
X_ROW_DIGITS == <<"0", "9", "/", "0", "3", "/", "2", "0", "2", "4", " ", "1", "0", "/", "0", "3", "/", "2", "0", "2", "4", " ", "R", "E", "F", "1", "2", "3", "4", ",", "5", "6">>

\* '07/03/2024 08/03/2024 CHEQUE 12'
X_ROW_NO_AMOUNT == <<"0", "7", "/", "0", "3", "/", "2", "0", "2", "4", " ", "0", "8", "/", "0", "3", "/", "2", "0", "2", "4", " ", "C", "H", "E", "Q", "U", "E", " ", "1", "2">>

\* '01/03/2024 01/03/2024 SOLDE PRECEDENT 9,00'
X_SOLDE == <<"0", "1", "/", "0", "3", "/", "2", "0", "2", "4", " ", "0", "1", "/", "0", "3", "/", "2", "0", "2", "4", " ", "S", "O", "L", "D", "E", " ", "P", "R", "E", "C", "E", "D", "E", "N", "T", " ", "9", ",", "0", "0">>

\* 'suite >>> Page 2'
X_SUITE == <<"s", "u", "i", "t", "e", " ", ">", ">", ">", " ", "P", "a", "g", "e", " ", "2">>

\* 'Societe Generale 3,00 Date Valeur Nature'
X_BREAK == <<"S", "o", "c", "i", "e", "t", "e", " ", "G", "e", "n", "e", "r", "a", "l", "e", " ", "3", ",", "0", "0", " ", "D", "a", "t", "e", " ", "V", "a", "l", "e", "u", "r", " ", "N", "a", "t", "u", "r", "e">>

\* 'Totaux des mouvements 1,00'
X_TOTAUX == <<"T", "o", "t", "a", "u", "x", " ", "d", "e", "s", " ", "m", "o", "u", "v", "e", "m", "e", "n", "t", "s", " ", "1", ",", "0", "0">>

\* parseSgPdf over the positioned lines, from the i-th on
RECURSIVE SgPdfFrom(_, _, _, _, _, _, _)
SgPdfFrom(pdfLines, i, dX, cX, row, table, txs) == IF i > Len(pdfLines) THEN SgKept(IF row.isNull THEN txs ELSE Append(txs, SgTransaction(row)))
                                                   ELSE IF SgOpensTable(pdfLines[i]) THEN SgPdfFrom(pdfLines, i + 1, dX, cX, row, TRUE, txs)
                                                   ELSE IF SgClosesTable(pdfLines[i]) THEN SgPdfFrom(pdfLines, i + 1, dX, cX, row, FALSE, txs)
                                                   ELSE IF ~table \/ SgIgnoredInTable(pdfLines[i]) THEN SgPdfFrom(pdfLines, i + 1, dX, cX, row, table, txs)
                                                   ELSE IF SgStartsWithDate(pdfLines[i]) THEN SgPdfFrom(pdfLines, i + 1, dX, cX, SgNewCurrent(pdfLines[i], dX, cX), table, IF row.isNull THEN txs ELSE Append(txs, SgTransaction(row)))
                                                   ELSE IF row.isNull THEN SgPdfFrom(pdfLines, i + 1, dX, cX, row, table, txs)
                                                   ELSE SgPdfFrom(pdfLines, i + 1, dX, cX, SgContinued(row, pdfLines[i], dX, cX), table, txs)

\* what parseSgPdf gives for the positioned lines of a buffer
parseSgPdf(pdfLines) == IF SgColumns(pdfLines).threw THEN [threw |-> TRUE, value |-> <<>>]
                        ELSE [threw |-> FALSE, value |-> SgPdfFrom(pdfLines, 1, Min(SgColumns(pdfLines).debitX, SgColumns(pdfLines).creditX), Max(SgColumns(pdfLines).debitX, SgColumns(pdfLines).creditX), NoCurrent, FALSE, <<>>)]

\* a header line whose first item holds the three titles
SG_HEADER_WIDE == PdfLine(<<LineItem(<<"D", "a", "t", "e", " ", "V", "a", "l", "e", "u", "r", " ", "N", "a", "t", "u", "r", "e">>, 30), LineItem(T_DEBIT, 400), LineItem(T_CREDIT, 500)>>)

\* rows of a text, and lines of a buffer
MaxSgTextRows == 2

MaxSgBufferLines == 2

SgTextHeads == {X_HEAD, X_NO_HEAD}

SgTextFragments == {X_ROW_TWO, X_ROW_TWO_APART, X_ROW_STAR, X_ROW_CREDIT, X_ROW_PLAIN, X_ROW_STAR_LABEL, X_ROW_DIGITS, X_ROW_NO_AMOUNT, X_SOLDE, X_SUITE, X_BREAK, X_TOTAUX}

SgBufferLines == {SG_HEADER, SG_HEADER_WIDE, SG_ROW_DEBIT, SG_ROW_CREDIT, SG_CONTINUATION}

\* what sgParser.parse is given: a text, or the bytes of a document of one page, known
\* by the positioned lines extractLinesFromPdf finds in it, its items in reading order;
\* loadingTask.promise rejects for the bytes that are not a document
SgInputs == {[type |-> "string", text |-> Join(<<head>> \o fs, <<"\n">>), valid |-> TRUE, lines |-> <<>>] : head \in SgTextHeads, fs \in SeqsUpTo(SgTextFragments, MaxSgTextRows)}
            \cup {[type |-> "buffer", text |-> <<>>, valid |-> TRUE, lines |-> ls] : ls \in SeqsUpTo(SgBufferLines, MaxSgBufferLines)}
            \cup {[type |-> "buffer", text |-> <<>>, valid |-> FALSE, lines |-> <<>>]}

\* content.items.map(...).join("") for the page, and the "\n" that ends it
SgBufferText(pdfLines) == Concat([l \in 1..Len(pdfLines) |-> Concat(ItemTexts(pdfLines[l].items))]) \o <<"\n">>

sgTextRest == <<routeVars, now, sgVars, output, bnpVars, bookVars, callVars, cicVars, lclVars, uiVars>>

InitSg == /\ RouteIdle
          /\ LclIdle
          /\ UiIdle
          /\ SgIdle
          /\ BnpIdle
          /\ BookIdle
          /\ CallsIdle
          /\ CicIdle
          /\ transactions = <<>>
          /\ ppc = "start"
          /\ pdfText = <<>>
          /\ now = 0
          /\ lines = <<>>
          /\ lineIdx = 0
          /\ thrown = ""
          /\ input \in SgInputs
          /\ output = <<>>

\* if (typeof input === "string") return parseSgText(input)
SgParseString == /\ ppc = "start"
                 /\ input.type = "string"
                 /\ pdfText' = input.text
                 /\ ppc' = "text"
                 /\ UNCHANGED <<input, transactions, lines, lineIdx, thrown, sgTextRest>>

\* await loadingTask.promise rejects
SgLoadFails == /\ ppc = "start"
               /\ input.type = "buffer"
               /\ ~input.valid
               /\ ppc' = "threw"
               /\ thrown' = "load"
               /\ UNCHANGED <<input, transactions, pdfText, lines, lineIdx, sgTextRest>>

\* the page loop of sgParser.parse, then parseSgText(text)
SgReadPages == /\ ppc = "start"
               /\ input.type = "buffer"
               /\ input.valid
               /\ pdfText' = SgBufferText(input.lines)
               /\ ppc' = "text"
               /\ UNCHANGED <<input, transactions, lines, lineIdx, thrown, sgTextRest>>

\* if (!tableText) throw new Error("Format PDF non reconnu Societe Generale")
SgTextThrow == /\ ppc = "text"
               /\ SgExtractTableText(pdfText) = <<>>
               /\ ppc' = "threw"
               /\ thrown' = "Format PDF non reconnu Societe Generale"
               /\ UNCHANGED <<input, transactions, pdfText, lines, lineIdx, sgTextRest>>

\* the table is normalized and the entries are matched
SgTextTable == /\ ppc = "text"
               /\ SgExtractTableText(pdfText) # <<>>
               /\ lines' = SgEntries(SgNormalizedTable(SgExtractTableText(pdfText)))
               /\ lineIdx' = 1
               /\ ppc' = "loop"
               /\ UNCHANGED <<input, transactions, pdfText, thrown, sgTextRest>>

\* the loop is at an entry of this kind
SgTextAt(kind) == /\ ppc = "loop"
                  /\ lineIdx <= Len(lines)
                  /\ SgTextKind(lines[lineIdx]) = kind

\* if (upper.includes("SOLDE PRECEDENT")) continue
SgTextSkipSolde == /\ SgTextAt("solde")
                   /\ lineIdx' = lineIdx + 1
                   /\ UNCHANGED <<input, transactions, ppc, pdfText, lines, thrown, sgTextRest>>

\* if (amountMatches.length === 0) continue
SgTextSkipNoAmount == /\ SgTextAt("noAmount")
                      /\ lineIdx' = lineIdx + 1
                      /\ UNCHANGED <<input, transactions, ppc, pdfText, lines, thrown, sgTextRest>>

\* transactions.push({...})
SgTextEmit == /\ SgTextAt("row")
              /\ transactions' = Append(transactions, SgTextRow(lines[lineIdx]))
              /\ lineIdx' = lineIdx + 1
              /\ UNCHANGED <<input, ppc, pdfText, lines, thrown, sgTextRest>>

\* return transactions
SgTextReturn == /\ ppc = "loop"
                /\ lineIdx > Len(lines)
                /\ ppc' = "done"
                /\ UNCHANGED <<input, transactions, pdfText, lines, lineIdx, thrown, sgTextRest>>

NextSg == SgParseString \/ SgLoadFails \/ SgReadPages \/ SgTextThrow \/ SgTextTable \/ SgTextSkipSolde \/ SgTextSkipNoAmount \/ SgTextEmit \/ SgTextReturn

SpecSg == InitSg /\ [][NextSg]_vars

\* C24: when sgParser.parse is given the bytes of a document in which positioned lines
\* are found, what it gives is what the geometry path, parseSgPdf, gives for these lines.
C24_GeometryPath == (input.type = "buffer" /\ input.valid /\ Len(input.lines) > 0 /\ ppc \in {"done", "threw"}) => IF parseSgPdf(input.lines).threw THEN ppc = "threw" ELSE ppc = "done" /\ transactions = parseSgPdf(input.lines).value

\* the entries of the text for which parseSgText pushes a transaction, in their order
SgRowEntries == SelectSeq(lines, LAMBDA entry : SgTextKind(entry) = "row")

\* the positions of the successive matches of the amount pattern in chunk, from i on
RECURSIVE SgSeparateMatches(_, _)
SgSeparateMatchesAt(chunk, p) == {p} \cup SgSeparateMatches(chunk, p + AmountFRLength(chunk, p))

SgSeparateMatches(chunk, i) == IF \A p \in i..(Len(chunk) - 1) : AmountFRLength(chunk, p) = 0 THEN {} ELSE SgSeparateMatchesAt(chunk, CHOOSE p \in i..(Len(chunk) - 1) : AmountFRLength(chunk, p) > 0 /\ \A q \in i..(p - 1) : AmountFRLength(chunk, q) = 0)

\* those of them that no digit precedes
SgSeparateCandidates(chunk) == SgSeparateMatches(chunk, 0) \cap SgCandidates(chunk)

\* the rightmost of the successive matches of the amount pattern that no digit precedes
SgRightmost(chunk) == CHOOSE i \in SgSeparateCandidates(chunk) : \A j \in SgSeparateCandidates(chunk) : j <= i

\* the sign stated for a chunk whose amount ends at amountEnd: negative when '*' follows
\* the amount, else positive iff the chunk holds a credit hint
SgStatedSign(chunk, amountEnd) == IF Includes(Slice(chunk, amountEnd, amountEnd + 3), <<"*">>) THEN -1 ELSE IF \E h \in 1..Len(CREDIT_HINTS) : Includes(ToUpperCase(chunk), CREDIT_HINTS[h]) THEN 1 ELSE -1

SgStatedAmountAt(chunk, amountIndex, amountEnd) == Times(parseAmountFR(Slice(chunk, amountIndex, amountEnd)).value, SgStatedSign(chunk, amountEnd))

\* the amount stated for a chunk in which some match is not preceded by a digit
SgStatedAmount(chunk) == SgStatedAmountAt(chunk, SgRightmost(chunk), SgRightmost(chunk) + AmountFRLength(chunk, SgRightmost(chunk)))

\* C26: in the text path the amount of every chunk is the rightmost match of the French
\* amount pattern that no digit precedes, so that of a chunk ending with '100,05 200,00'
\* is 200,00; it is negative when '*' follows the amount, otherwise positive iff the
\* chunk holds a credit hint, negative by default.
C26_RightmostAmount == (input.type = "string" /\ ppc = "done") => \A k \in 1..Len(SgRowEntries) : SgSeparateCandidates(SgRowEntries[k].chunk) # {} => (k <= Len(transactions) /\ transactions[k].amount = SgStatedAmount(SgRowEntries[k].chunk))


\* the line has two amount items, one on each side of the middle of the columns
SgTwoSided(amounts, dX, cX) == /\ Len(amounts) = 2
                               /\ \E a \in 1..2 : 2 * amounts[a].x >= dX + cX
                               /\ \E a \in 1..2 : 2 * amounts[a].x < dX + cX

\* C25: in the geometry path, when a row start line carries two amount items, one on
\* the credit side of the middle of the columns and one on the debit side, the amount of
\* the row is the value of the item of the credit column, and it is positive.
C25_CreditColumnWins == [][(SgInTableRow /\ SgStartsWithDate(lines[lineIdx]) /\ SgTwoSided(SgAmounts(lines[lineIdx]), debitX, creditX)) => (current'.amount = SgCreditAmount(SgAmounts(lines[lineIdx]), debitX, creditX) /\ current'.amount.m > 0)]_vars

(***************************************************************************)
(* The LCL parser (lcl.ts): parseLclLines over the positioned lines of a   *)
(* statement; the three passes, one line a step.                           *)
(***************************************************************************)
\* IGNORE_LINE_PATTERNS of lcl.ts but /PAGE\s+\d+/i, as the words \s+ separates
LCL_IGNORE_WORDS == <<<<<<"S", "O", "L", "D", "E">>, <<"I", "N", "T", "E", "R", "M", "E", "D", "I", "A", "I", "R", "E">>>>, <<<<"S", "O", "L", "D", "E">>, <<"E", "N">>, <<"E", "U", "R", "O", "S">>>>, <<<<"T", "O", "T", "A", "U", "X">>>>, <<<<"S", "O", "U", "S">>, <<"T", "O", "T", "A", "L">>>>, <<<<"R", "E", "L", "E", "V", "E">>, <<"D", "E">>, <<"C", "O", "M", "P", "T", "E">>>>, <<<<"M", "O", "N", "T", "A", "N", "T">>, <<"C", "O", "M", "P", "T", "A", "B", "I", "L", "I", "S", "E">>>>, <<<<"C", "R", "E", "D", "I", "T">>, <<"L", "Y", "O", "N", "N", "A", "I", "S">>>>, <<<<"R", "E", "L", "E", "V", "E">>, <<"D", "'", "I", "D", "E", "N", "T", "I", "T", "E">>>>>>

\* SECTION_KEYWORDS of lcl.ts
LCL_SECTION_KEYWORDS == <<<<"P", "A", "I", "E", "M", "E", "N", "T", "S", " ", "P", "A", "R", " ", "C", "A", "R", "T", "E">>, <<"P", "A", "I", "E", "M", "E", "N", "T", "S", " ", "P", "A", "R", " ", "C", "A", "R", "T", "E", "S">>, <<"C", "H", "E", "Q", "U", "E", "S", " ", "E", "M", "I", "S">>, <<"C", "H", "E", "Q", "U", "E", "S">>>>

\* the words the card detail pass skips a line for
LCL_CARD_SKIPS == <<<<"L", "I", "B", "E", "L", "L", "E">>, <<"S", "O", "U", "S", " ", "T", "O", "T", "A", "L">>, <<"T", "O", "T", "A", "U", "X">>, <<"M", "O", "N", "T", "A", "N", "T", " ", "C", "O", "M", "P", "T", "A", "B", "I", "L", "I", "S", "E">>, <<"S", "O", "L", "D", "E">>, <<"C", "A", "R", "T", "E", " ", "N">>, <<"P", "A", "I", "E", "M", "E", "N", "T", "S", " ", "P", "A", "R", " ", "C", "A", "R", "T", "E">>>>

S_PAIEMENTS_PAR_CARTE == <<"P", "A", "I", "E", "M", "E", "N", "T", "S", " ", "P", "A", "R", " ", "C", "A", "R", "T", "E">>

S_CHEQUES == <<"C", "H", "E", "Q", "U", "E", "S">>

S_RELEVE_CB == <<"R", "E", "L", "E", "V", "E", " ", "C", "B">>

S_ANCIEN_SOLDE == <<"A", "N", "C", "I", "E", "N", " ", "S", "O", "L", "D", "E">>

S_MONTANT_COMPTABILISE == <<"M", "O", "N", "T", "A", "N", "T", " ", "C", "O", "M", "P", "T", "A", "B", "I", "L", "I", "S", "E">>

S_LIBELLE == <<"L", "I", "B", "E", "L", "L", "E">>

\* /PAGE\s+\d+/i matches at position i of line
LclPageAt(line, i) == /\ OccursAtIgnoringCase(line, <<"P", "A", "G", "E">>, i)
                      /\ RunLength(line, i + 4, WhiteSpace) > 0
                      /\ RunLength(line, i + 4 + RunLength(line, i + 4, WhiteSpace), Digits) > 0

\* shouldIgnoreLine of lcl.ts
LclShouldIgnoreLine(line) == \E i \in 0..(Len(line) - 1) : \/ \E k \in 1..Len(LCL_IGNORE_WORDS) : WordsLength(line, i, LCL_IGNORE_WORDS[k]) > 0
                                                           \/ LclPageAt(line, i)

\* SECTION_KEYWORDS.find((keyword) => upper.includes(keyword)), <<>> when none is found
LclSectionMatch(upper) == IF \A k \in 1..Len(LCL_SECTION_KEYWORDS) : ~Includes(upper, LCL_SECTION_KEYWORDS[k]) THEN <<>> ELSE LCL_SECTION_KEYWORDS[CHOOSE k \in 1..Len(LCL_SECTION_KEYWORDS) : Includes(upper, LCL_SECTION_KEYWORDS[k]) /\ \A j \in 1..(k - 1) : ~Includes(upper, LCL_SECTION_KEYWORDS[j])]

\* upper.includes("DATE") && upper.includes("LIBELLE") && upper.includes("VALEUR")
LclIsHeader(upper) == Includes(upper, S_DATE_UPPER) /\ Includes(upper, S_LIBELLE) /\ Includes(upper, <<"V", "A", "L", "E", "U", "R">>)

\* line.items.find((it) => it.text.toUpperCase().includes(word))?.x ?? column
LclColumnOf(items, found, column) == IF found = 0 THEN column ELSE items[found].x

LclColumn(items, word, column) == LclColumnOf(items, FirstIndex({i \in 1..Len(items) : Includes(ToUpperCase(items[i].text), word)}), column)

\* the first loop of parseLclLines, from the i-th line on: <<debitX, creditX>>
RECURSIVE LclColumnsFrom(_, _, _, _)
LclColumnsFrom(pdfLines, i, dX, cX) == IF i > Len(pdfLines) THEN <<dX, cX>>
                                       ELSE IF ~LclIsHeader(ToUpperCase(pdfLines[i].text)) THEN LclColumnsFrom(pdfLines, i + 1, dX, cX)
                                       ELSE IF LclColumn(pdfLines[i].items, S_DEBIT_UPPER, dX) # NoColumnX /\ LclColumn(pdfLines[i].items, S_CREDIT_UPPER, cX) # NoColumnX THEN <<LclColumn(pdfLines[i].items, S_DEBIT_UPPER, dX), LclColumn(pdfLines[i].items, S_CREDIT_UPPER, cX)>>
                                       ELSE LclColumnsFrom(pdfLines, i + 1, LclColumn(pdfLines[i].items, S_DEBIT_UPPER, dX), LclColumn(pdfLines[i].items, S_CREDIT_UPPER, cX))

\* /\d{2}[./]\d{2}/ matches at position i of s
IsShortDateAt(s, i) == /\ i + 5 <= Len(s)
                       /\ \A k \in {1, 2, 4, 5} : IsDigit(s[i + k])
                       /\ s[i + 3] \in {".", "/"}

\* /\d{2}[./]\d{2}[./]\d{2}/ matches at position i of s
IsLongDateAt(s, i) == /\ IsShortDateAt(s, i)
                      /\ i + 8 <= Len(s)
                      /\ s[i + 6] \in {".", "/"}
                      /\ IsDigit(s[i + 7])
                      /\ IsDigit(s[i + 8])

\* SHORT_DATE_REGEX.test(token)
IsShortDateToken(token) == Len(token) = 5 /\ IsShortDateAt(token, 0)

\* LONG_DATE_REGEX.test(token)
IsLongDateToken(token) == Len(token) \in 8..10 /\ IsLongDateAt(token, 0) /\ \A k \in 9..Len(token) : IsDigit(token[k])

\* token.replace(/\//g, ".")
Dotted(token) == [i \in 1..Len(token) |-> IF token[i] = "/" THEN "." ELSE token[i]]

\* normalizeDateToken, for a token already dotted
LclShortYear(normalized) == IF IsLongDateToken(normalized) THEN SubSeq(normalized, 1, 6) \o SubSeq(normalized, Len(normalized) - 1, Len(normalized)) ELSE normalized

normalizeDateToken(token) == LclShortYear(Dotted(token))

\* parseShortDate of lcl.ts, for a token dd.mm or dd.mm.yyyy
LclParseShortDate(token, reference) == DateUTC(reference.year, ToNat(SubSeq(token, 4, 5)) - 1, ToNat(SubSeq(token, 1, 2)))

\* a ?? b for dates
DateCoalesce(a, b) == IF a = NullDate THEN b ELSE a

\* new Date(), of which the year alone is read
LclToday(currentYear) == [year |-> currentYear, month |-> 1, day |-> 1]

\* /du\s+(\d{2}[./]\d{2}[./]\d{4})/i matches at position i of s
LclPeriodAt(s, i) == /\ OccursAtIgnoringCase(s, <<"D", "U">>, i)
                     /\ RunLength(s, i + 2, WhiteSpace) > 0
                     /\ IsLongDateAt(s, i + 2 + RunLength(s, i + 2, WhiteSpace))
                     /\ RunLength(s, i + 2 + RunLength(s, i + 2, WhiteSpace) + 6, Digits) >= 4

\* the date token of the first match of that pattern in s
LclPeriodTokenAt(s, i) == Slice(s, i + 2 + RunLength(s, i + 2, WhiteSpace), i + 12 + RunLength(s, i + 2, WhiteSpace))

LclPeriodToken(s) == LclPeriodTokenAt(s, CHOOSE i \in 0..Len(s) : LclPeriodAt(s, i) /\ \A j \in 0..(i - 1) : ~LclPeriodAt(s, j))

\* findPeriodStart
LclPeriodLine(pdfLines, found) == IF found = 0 THEN NullDate ELSE parseDateFR(normalizeDateToken(LclPeriodToken(pdfLines[found].text))).value

findPeriodStart(pdfLines) == LclPeriodLine(pdfLines, FirstIndex({l \in 1..Len(pdfLines) : \E i \in 0..Len(pdfLines[l].text) : LclPeriodAt(pdfLines[l].text, i)}))

\* resolveDateItems: the short and the long items of the line, sorted by x; a token that
\* passes SHORT_DATE_REGEX or LONG_DATE_REGEX passes ANY_DATE_REGEX
LclShortItems(line) == SortedByX(SelectSeq(line.items, LAMBDA it : IsShortDateToken(Trim(it.text))))

LclLongItems(line) == SortedByX(SelectSeq(line.items, LAMBDA it : IsLongDateToken(Trim(it.text))))

\* shortItems[0] ?? longItems[0] ?? null, and the last of longItems, as sequences of at
\* most one item
LclFirstOf(items) == IF items = <<>> THEN <<>> ELSE <<items[1]>>

LclOperationItem(line) == LclFirstOf(LclShortItems(line) \o LclLongItems(line))

LclLastOf(items) == IF items = <<>> THEN <<>> ELSE <<items[Len(items)]>>

LclValueItem(line) == LclLastOf(LclLongItems(line))

\* (?:[  ]\d{3}) matches at position i of s
IsLclGroup(s, i) == /\ i + 4 <= Len(s)
                    /\ s[i + 1] \in {" ", NBSP}
                    /\ \A k \in 2..4 : IsDigit(s[i + k])

RECURSIVE AfterLclGroups(_, _)
AfterLclGroups(s, i) == IF IsLclGroup(s, i) THEN AfterLclGroups(s, i + 4) ELSE i

\* the length of the match of /\d{1,3}(?:[  ]\d{3})*,\d{2}/ at position i of s, 0
\* when there is none
LclAmountEnd(s, i, g) == IF g > i /\ g + 3 <= Len(s) /\ s[g + 1] = "," /\ IsDigit(s[g + 2]) /\ IsDigit(s[g + 3]) THEN g + 3 - i ELSE 0

LclAmountLength(s, i) == LclAmountEnd(s, i, AfterLclGroups(s, i + Min(3, RunLength(s, i, Digits))))

\* that pattern matches somewhere in s
LclHasAmount(s) == \E i \in 0..(Len(s) - 1) : LclAmountLength(s, i) > 0

\* line.items.filter((it) => /\d{1,3}(?:[  ]\d{3})*,\d{2}/.test(it.text))
LclAmountItems(line) == SelectSeq(line.items, LAMBDA it : LclHasAmount(it.text))

\* findAmountsInLine(amountItems.map((it) => it.text).join(" "))
LclAmounts(line) == findAmountsInLine(Join(ItemTexts(LclAmountItems(line)), <<" ">>))

\* Math.abs(a - b)
AbsDiff(a, b) == IF a >= b THEN a - b ELSE b - a

\* a variant of LclCloserToCredit for which an item half way is on the credit side
LclNotCloserToDebit(x, dX, cX) == AbsDiff(x, cX) <= AbsDiff(x, dX)

\* Math.abs(amountItem.x - creditX) < Math.abs(amountItem.x - debitX)
LclCloserToCredit(x, dX, cX) == AbsDiff(x, cX) < AbsDiff(x, dX)

\* the sign of the amount of a row, whose last amount item is amountItem
LclSign(amountItem, dX, cX, section) == IF Includes(amountItem.text, <<"-">>) THEN -1
                                        ELSE IF cX # NoColumnX /\ dX # NoColumnX THEN (IF LclCloserToCredit(amountItem.x, dX, cX) THEN 1 ELSE -1)
                                        ELSE IF section # <<>> /\ (Includes(ToUpperCase(section), S_PAIEMENTS_PAR_CARTE) \/ Includes(ToUpperCase(section), S_CHEQUES)) THEN -1
                                        ELSE 1

\* the label of a row: the items between the operation item and the value item, the
\* text of the line when there is none
LclLabelOf(label, text0) == IF label = <<>> THEN text0 ELSE label

LclLabel(line, operationItem, valueItem) == LclLabelOf(normalizeSpaces(Join(SelectSeq(ItemTexts(SelectSeq(line.items, LAMBDA it : it.x > operationItem.x + 1 /\ it.x < valueItem.x - 1)), LAMBDA part : Trim(part) # <<>>), <<" ">>)), line.text)

\* { dateOperation, dateValeur, label, amount, meta: { raw, section } }
LclTransaction(dateOperation, dateValeur, label, amount, raw, section) == [dateOperation |-> dateOperation, dateValeur |-> dateValeur, label |-> label, amount |-> amount, meta |-> [raw |-> raw, section |-> section]]

\* the row pushed for a line with both date items and an amount
LclRowWith(line, operationItem, valueItem, valueDate, amounts, amountItems, dX, cX, section) == LclTransaction(LclParseShortDate(Dotted(operationItem.text), valueDate), valueDate, LclLabel(line, operationItem, valueItem), Times(parseAmountFR(amounts[Len(amounts)]).value, LclSign(amountItems[Len(amountItems)], dX, cX, section)), line.text, section)

LclRow(line, dX, cX, section) == LclRowWith(line, LclOperationItem(line)[1], LclValueItem(line)[1], parseDateFR(normalizeDateToken(LclValueItem(line)[1].text)).value, LclAmounts(line), LclAmountItems(line), dX, cX, section)

\* /ANCIEN\s+SOLDE/i.test(text)
LclIsAncienSolde(text0) == \E i \in 0..(Len(text0) - 1) : WordsLength(text0, i, <<<<"A", "N", "C", "I", "E", "N">>, <<"S", "O", "L", "D", "E">>>>) > 0

\* text.match(/\d{1,3}(?:[  ]\d{3})*,\d{2}/)[0]
LclFirstAmountAt(text0, i) == Slice(text0, i, i + LclAmountLength(text0, i))

LclFirstAmount(text0) == LclFirstAmountAt(text0, CHOOSE i \in 0..(Len(text0) - 1) : LclAmountLength(text0, i) > 0 /\ \A j \in 0..(i - 1) : LclAmountLength(text0, j) = 0)

\* the sign of the old balance: by the columns when the item that holds the amount is
\* found and both columns are known, else -1
LclSoldeSign(items, found, dX, cX) == IF found # 0 /\ cX # NoColumnX /\ dX # NoColumnX THEN (IF LclCloserToCredit(items[found].x, dX, cX) THEN 1 ELSE -1) ELSE -1

\* the date of the old balance
LclSoldeDate(operationItem, fallbackDate) == IF operationItem # <<>> /\ operationItem[1].text # <<>> THEN LclParseShortDate(Dotted(operationItem[1].text), fallbackDate) ELSE fallbackDate

\* the row pushed for the line of the old balance
LclSoldeWith(line, amountMatch, dateOperation, dX, cX, section) == LclTransaction(dateOperation, dateOperation, S_ANCIEN_SOLDE, Times(parseAmountFR(amountMatch).value, LclSoldeSign(line.items, FirstIndex({i \in 1..Len(line.items) : Includes(line.items[i].text, amountMatch)}), dX, cX)), line.text, section)

LclSoldeRow(line, fallbackDate, dX, cX, section) == LclSoldeWith(line, LclFirstAmount(line.text), LclSoldeDate(LclOperationItem(line), fallbackDate), dX, cX, section)

\* what the main loop does with a line
LclKind(line) == IF line.text = <<>> \/ LclShouldIgnoreLine(line.text) THEN "ignored"
                 ELSE IF LclSectionMatch(ToUpperCase(line.text)) # <<>> THEN "section"
                 ELSE IF LclIsHeader(ToUpperCase(line.text)) THEN "header"
                 ELSE IF LclIsAncienSolde(line.text) THEN (IF LclHasAmount(line.text) THEN "solde" ELSE "soldeNoAmount")
                 ELSE IF LclOperationItem(line) = <<>> \/ LclValueItem(line) = <<>> THEN "noDates"
                 ELSE IF LclAmounts(line) = <<>> THEN "noAmount"
                 ELSE "row"

\* /\d{2}\/\d{2}\/\d{4}/ in text, for parseCardValueDate
LclCardValueOf(text0, found) == IF found = {} THEN NullDate ELSE parseDateFR(normalizeDateToken(Slice(text0, FirstIndex(found), FirstIndex(found) + 10))).value

parseCardValueDate(text0) == LclCardValueOf(text0, {i \in 0..(Len(text0) - 1) : IsLongDate(text0, i)})

\* the card value date: that of the first line in which /MONTANT COMPTABILISE/i matches
LclCardValueLine(pdfLines, found) == IF found = 0 THEN NullDate ELSE parseCardValueDate(pdfLines[found].text)

LclCardValueDate(pdfLines) == LclCardValueLine(pdfLines, FirstIndex({l \in 1..Len(pdfLines) : IncludesIgnoringCase(pdfLines[l].text, S_MONTANT_COMPTABILISE)}))

\* /\bLE\s*(\d{2}[./]\d{2})\b/i matches at position i of s
LclOpDateAt(s, i) == /\ (i = 0 \/ ~IsWordChar(s[i]))
                     /\ OccursAtIgnoringCase(s, <<"L", "E">>, i)
                     /\ IsShortDateAt(s, i + 2 + RunLength(s, i + 2, WhiteSpace))
                     /\ (i + 7 + RunLength(s, i + 2, WhiteSpace) = Len(s) \/ ~IsWordChar(s[i + 8 + RunLength(s, i + 2, WhiteSpace)]))

LclHasOpDate(s) == \E i \in 0..(Len(s) - 1) : LclOpDateAt(s, i)

\* the position of the first match of that pattern in s
LclOpDateIndex(s) == CHOOSE i \in 0..(Len(s) - 1) : LclOpDateAt(s, i) /\ \A j \in 0..(i - 1) : ~LclOpDateAt(s, j)

\* cardLongDateToken.test(text)
LclHasLongDate(s) == \E i \in 0..(Len(s) - 1) : IsLongDateAt(s, i)

\* text.replace(amountRegex, ""), the pattern being the last amount and "$"; an amount
\* with one "." at most holds no character that the pattern reads as a wild card
LclWithoutAmount(text0, amount) == IF Len(amount) <= Len(text0) /\ SliceFrom(text0, Len(text0) - Len(amount)) = amount THEN Slice(text0, 0, Len(text0) - Len(amount)) ELSE text0

\* label.replace(opDateMatch[0], ""): the first occurrence
LclWithout(label, needle) == IF IndexOf(label, needle) = -1 THEN label ELSE Slice(label, 0, IndexOf(label, needle)) \o SliceFrom(label, IndexOf(label, needle) + Len(needle))

\* the label of a card row, opDateMatch being found at position i of the text
LclCardLabel(text0, amount, i) == normalizeSpaces(LclWithout(normalizeSpaces(LclWithoutAmount(text0, amount)), Slice(text0, i, i + 7 + RunLength(text0, i + 2, WhiteSpace))))

\* the row the card detail pass pushes
LclCardRowWith(text0, amount, i, operationDate, cardValueDate) == LclTransaction(operationDate, DateCoalesce(cardValueDate, operationDate), LclCardLabel(text0, amount, i), Times(MathAbs(parseAmountFR(amount).value), -1), text0, S_PAIEMENTS_PAR_CARTE)

LclCardRowAt(text0, amounts, i, cardValueDate, fallbackDate) == LclCardRowWith(text0, amounts[Len(amounts)], i, LclParseShortDate(Dotted(Slice(text0, i + 2 + RunLength(text0, i + 2, WhiteSpace), i + 7 + RunLength(text0, i + 2, WhiteSpace))), fallbackDate), cardValueDate)

LclCardRow(text0, cardValueDate, periodStart, today) == LclCardRowAt(text0, findAmountsInLine(text0), LclOpDateIndex(text0), cardValueDate, DateCoalesce(cardValueDate, DateCoalesce(periodStart, today)))

\* what the card detail pass does with a line
LclCardKind(text0) == IF \E k \in 1..Len(LCL_CARD_SKIPS) : Includes(ToUpperCase(text0), LCL_CARD_SKIPS[k]) THEN "skip"
                      ELSE IF findAmountsInLine(text0) # <<>> /\ LclHasOpDate(text0) /\ ~LclHasLongDate(text0) THEN "card"
                      ELSE "other"

\* /RELEVE CB/i.test(tx.label)
LclIsReleveCb(tx) == IncludesIgnoringCase(tx.label, S_RELEVE_CB)

\* a variant of LclBase that keeps every row
LclBaseUnfiltered(txs, found) == txs

\* baseTransactions
LclBase(txs, found) == IF found THEN SelectSeq(txs, LAMBDA tx : ~LclIsReleveCb(tx)) ELSE txs
\* the positioned lines the statements given to parseLclLines are made of
\* 'Date'@30 | 'Libelle'@100 | 'Valeur'@300 | 'Debit'@400 | 'Credit'@500
L_HEADER == PdfLine(<<LineItem(<<"D", "a", "t", "e">>, 30), LineItem(<<"L", "i", "b", "e", "l", "l", "e">>, 100), LineItem(<<"V", "a", "l", "e", "u", "r">>, 300), LineItem(<<"D", "e", "b", "i", "t">>, 400), LineItem(<<"C", "r", "e", "d", "i", "t">>, 500)>>)

\* 'Date'@30 | 'Libelle'@100 | 'Valeur'@300
L_HEADER_NO_COLUMNS == PdfLine(<<LineItem(<<"D", "a", "t", "e">>, 30), LineItem(<<"L", "i", "b", "e", "l", "l", "e">>, 100), LineItem(<<"V", "a", "l", "e", "u", "r">>, 300)>>)

\* 'du 01/03/2024 au 31/03/2024'@30
L_PERIOD == PdfLine(<<LineItem(<<"d", "u", " ", "0", "1", "/", "0", "3", "/", "2", "0", "2", "4", " ", "a", "u", " ", "3", "1", "/", "0", "3", "/", "2", "0", "2", "4">>, 30)>>)

\* 'Paiements par carte'@30
L_SECTION_CARD == PdfLine(<<LineItem(<<"P", "a", "i", "e", "m", "e", "n", "t", "s", " ", "p", "a", "r", " ", "c", "a", "r", "t", "e">>, 30)>>)

\* '05/03'@30 | 'PRLV EDF'@100 | '05/03/2024'@300 | '45,00'@405
L_ROW_DEBIT == PdfLine(<<LineItem(<<"0", "5", "/", "0", "3">>, 30), LineItem(<<"P", "R", "L", "V", " ", "E", "D", "F">>, 100), LineItem(<<"0", "5", "/", "0", "3", "/", "2", "0", "2", "4">>, 300), LineItem(<<"4", "5", ",", "0", "0">>, 405)>>)

\* '06.03'@30 | 'VIR SALAIRE'@100 | '06.03.24'@300 | '1 200,00'@495
L_ROW_CREDIT == PdfLine(<<LineItem(<<"0", "6", ".", "0", "3">>, 30), LineItem(<<"V", "I", "R", " ", "S", "A", "L", "A", "I", "R", "E">>, 100), LineItem(<<"0", "6", ".", "0", "3", ".", "2", "4">>, 300), LineItem(<<"1", " ", "2", "0", "0", ",", "0", "0">>, 495)>>)

\* '07/03'@30 | 'FRAIS'@100 | '07/03/2024'@300 | '-3,50'@495
L_ROW_MINUS == PdfLine(<<LineItem(<<"0", "7", "/", "0", "3">>, 30), LineItem(<<"F", "R", "A", "I", "S">>, 100), LineItem(<<"0", "7", "/", "0", "3", "/", "2", "0", "2", "4">>, 300), LineItem(<<"-", "3", ",", "5", "0">>, 495)>>)

\* '08/03'@30 | 'AVOIR'@100 | '08/03/2024'@300 | '9,90'@450
L_ROW_MIDDLE == PdfLine(<<LineItem(<<"0", "8", "/", "0", "3">>, 30), LineItem(<<"A", "V", "O", "I", "R">>, 100), LineItem(<<"0", "8", "/", "0", "3", "/", "2", "0", "2", "4">>, 300), LineItem(<<"9", ",", "9", "0">>, 450)>>)

\* '09/03'@30 | 'Releve CB mars'@100 | '09/03/2024'@300 | '32,30'@405
L_ROW_CB == PdfLine(<<LineItem(<<"0", "9", "/", "0", "3">>, 30), LineItem(<<"R", "e", "l", "e", "v", "e", " ", "C", "B", " ", "m", "a", "r", "s">>, 100), LineItem(<<"0", "9", "/", "0", "3", "/", "2", "0", "2", "4">>, 300), LineItem(<<"3", "2", ",", "3", "0">>, 405)>>)

\* '10/03'@30 | 'NOTE'@100 | '10/03/2024'@300
L_ROW_NO_AMOUNT == PdfLine(<<LineItem(<<"1", "0", "/", "0", "3">>, 30), LineItem(<<"N", "O", "T", "E">>, 100), LineItem(<<"1", "0", "/", "0", "3", "/", "2", "0", "2", "4">>, 300)>>)

\* 'Cheques emis'@30
L_SECTION_CHEQUES == PdfLine(<<LineItem(<<"C", "h", "e", "q", "u", "e", "s", " ", "e", "m", "i", "s">>, 30)>>)

\* 'ANCIEN SOLDE'@100
L_ANCIEN_NO_AMOUNT == PdfLine(<<LineItem(<<"A", "N", "C", "I", "E", "N", " ", "S", "O", "L", "D", "E">>, 100)>>)

\* 'ANCIEN SOLDE'@100 | '1 000,00'@495
L_ANCIEN == PdfLine(<<LineItem(<<"A", "N", "C", "I", "E", "N", " ", "S", "O", "L", "D", "E">>, 100), LineItem(<<"1", " ", "0", "0", "0", ",", "0", "0">>, 495)>>)

\* 'LE 02/03 BOULANGERIE'@100 | '12,30'@405
L_CARD_DETAIL == PdfLine(<<LineItem(<<"L", "E", " ", "0", "2", "/", "0", "3", " ", "B", "O", "U", "L", "A", "N", "G", "E", "R", "I", "E">>, 100), LineItem(<<"1", "2", ",", "3", "0">>, 405)>>)

\* 'MONTANT COMPTABILISE LE 04/03/2024'@100 | '32,30'@405
L_MONTANT == PdfLine(<<LineItem(<<"M", "O", "N", "T", "A", "N", "T", " ", "C", "O", "M", "P", "T", "A", "B", "I", "L", "I", "S", "E", " ", "L", "E", " ", "0", "4", "/", "0", "3", "/", "2", "0", "2", "4">>, 100), LineItem(<<"3", "2", ",", "3", "0">>, 405)>>)

\* lines of a statement after its first
MaxLclLines == 2

LclHeads == {L_HEADER, L_HEADER_NO_COLUMNS, L_PERIOD}

LclFragments == {L_SECTION_CARD, L_SECTION_CHEQUES, L_ROW_DEBIT, L_ROW_CREDIT, L_ROW_MINUS, L_ROW_MIDDLE, L_ROW_CB, L_ROW_NO_AMOUNT, L_ANCIEN, L_ANCIEN_NO_AMOUNT, L_CARD_DETAIL, L_MONTANT}

\* the lines lclParser.parse makes of a string: { text: line, items: [], page: 1 }
LclTextLines(pdfLines) == [i \in 1..Len(pdfLines) |-> [text |-> pdfLines[i].text, items |-> <<>>]]

\* the statements given to parseLclLines: the lines of a document, or those of its text
LclInputs == {<<head>> \o body : head \in LclHeads, body \in SeqsUpTo(LclFragments, MaxLclLines)}

lclRest == <<routeVars, pdfText, now, lines, thrown, current, inTable, currentOperation, input, bookVars, callVars, cicVars, uiVars>>

InitLcl == /\ RouteIdle
           /\ UiIdle
           /\ CicIdle
           /\ BookIdle
           /\ CallsIdle
           /\ LclIdle
           /\ transactions = <<>>
           /\ ppc = "start"
           /\ pdfText = <<>>
           /\ now \in CurrentYears
           /\ \E pdfLines \in LclInputs : lines \in {pdfLines, LclTextLines(pdfLines)}
           /\ lineIdx = 0
           /\ thrown = ""
           /\ current = NoCurrent
           /\ inTable = FALSE
           /\ debitX = NoColumnX
           /\ creditX = NoColumnX
           /\ currentSection = <<>>
           /\ currentOperation = NoOperation
           /\ input = <<>>
           /\ output = <<>>

\* the first loop of parseLclLines: the columns of the header
LclDiscoverColumns == /\ ppc = "start"
                      /\ ppc' = "main"
                      /\ debitX' = LclColumnsFrom(lines, 1, NoColumnX, NoColumnX)[1]
                      /\ creditX' = LclColumnsFrom(lines, 1, NoColumnX, NoColumnX)[2]
                      /\ lineIdx' = 1
                      /\ UNCHANGED <<transactions, currentSection, output, lclVars, lclRest>>

\* the main loop is at a line of the given kind
LclMainAt(kind) == /\ ppc = "main"
                   /\ lineIdx <= Len(lines)
                   /\ LclKind(lines[lineIdx]) = kind

\* a line the main loop passes over: continue
LclMainSkip(kind) == /\ LclMainAt(kind)
                     /\ lineIdx' = lineIdx + 1
                     /\ UNCHANGED <<ppc, transactions, debitX, creditX, currentSection, output, lclVars, lclRest>>

\* currentSection = sectionMatch; continue
LclMainSection == /\ LclMainAt("section")
                  /\ currentSection' = LclSectionMatch(ToUpperCase(lines[lineIdx].text))
                  /\ lineIdx' = lineIdx + 1
                  /\ UNCHANGED <<ppc, transactions, debitX, creditX, output, lclVars, lclRest>>

\* the line of the old balance, with an amount
LclMainSolde == /\ LclMainAt("solde")
                /\ transactions' = Append(transactions, LclSoldeRow(lines[lineIdx], DateCoalesce(findPeriodStart(lines), LclToday(now)), debitX, creditX, currentSection))
                /\ lineIdx' = lineIdx + 1
                /\ UNCHANGED <<ppc, debitX, creditX, currentSection, output, lclVars, lclRest>>

\* a line with both dates and an amount: transactions.push({...})
LclMainRow == /\ LclMainAt("row")
              /\ transactions' = Append(transactions, LclRow(lines[lineIdx], debitX, creditX, currentSection))
              /\ lineIdx' = lineIdx + 1
              /\ UNCHANGED <<ppc, debitX, creditX, currentSection, output, lclVars, lclRest>>

\* the main loop is over: the card detail pass starts
LclMainEnd == /\ ppc = "main"
              /\ lineIdx > Len(lines)
              /\ ppc' = "card"
              /\ lineIdx' = 1
              /\ UNCHANGED <<transactions, debitX, creditX, currentSection, output, lclVars, lclRest>>

\* the card detail pass is at a line of the given kind
LclCardAt(kind) == /\ ppc = "card"
                   /\ lineIdx <= Len(lines)
                   /\ LclCardKind(lines[lineIdx].text) = kind

\* a line the card detail pass passes over
LclCardSkip(kind) == /\ LclCardAt(kind)
                     /\ lineIdx' = lineIdx + 1
                     /\ UNCHANGED <<ppc, transactions, debitX, creditX, currentSection, output, lclVars, lclRest>>

\* cardTransactions.push({...}); cardDetailsFound = true
LclCardEmit == /\ LclCardAt("card")
               /\ cardTransactions' = Append(cardTransactions, LclCardRow(lines[lineIdx].text, LclCardValueDate(lines), findPeriodStart(lines), LclToday(now)))
               /\ cardDetailsFound' = TRUE
               /\ lineIdx' = lineIdx + 1
               /\ UNCHANGED <<ppc, transactions, debitX, creditX, currentSection, output, lclRest>>

\* return [...baseTransactions, ...cardTransactions]
LclReturn == /\ ppc = "card"
             /\ lineIdx > Len(lines)
             /\ output' = LclBase(transactions, cardDetailsFound) \o cardTransactions
             /\ ppc' = "done"
             /\ UNCHANGED <<transactions, lineIdx, debitX, creditX, currentSection, lclVars, lclRest>>

NextLcl == \/ LclDiscoverColumns
           \/ LclMainSkip("ignored")
           \/ LclMainSkip("header")
           \/ LclMainSkip("soldeNoAmount")
           \/ LclMainSkip("noDates")
           \/ LclMainSkip("noAmount")
           \/ LclMainSection
           \/ LclMainSolde
           \/ LclMainRow
           \/ LclMainEnd
           \/ LclCardSkip("skip")
           \/ LclCardSkip("other")
           \/ LclCardEmit
           \/ LclReturn

SpecLcl == InitLcl /\ [][NextLcl]_vars

(***************************************************************************)
(* The sign of the rows of the main pass of parseLclLines.                 *)
(***************************************************************************)
\* the amount items of a line, and the one furthest to the right
LclRightmostOf(items) == CHOOSE it \in {items[i] : i \in 1..Len(items)} : \A i \in 1..Len(items) : items[i].x <= it.x

LclRightmost(line) == LclRightmostOf(SelectSeq(line.items, LAMBDA it : LclHasAmount(it.text)))

\* a section of card payments or of cheques
LclIsDebitSection(section) == section \in {LCL_SECTION_KEYWORDS[k] : k \in 1..Len(LCL_SECTION_KEYWORDS)}

\* the row of the line is to be negative: its rightmost amount item holds "-"; or, both
\* columns being known, the item is not strictly closer to creditX than to debitX; or,
\* no column being known, the section is one of card payments or of cheques
LclStatedNegative(item, dX, cX, section) == \/ \E i \in 1..Len(item.text) : item.text[i] = "-"
                                            \/ /\ \A i \in 1..Len(item.text) : item.text[i] # "-"
                                               /\ dX # NoColumnX /\ cX # NoColumnX
                                               /\ ~(AbsDiff(item.x, cX) < AbsDiff(item.x, dX))
                                            \/ /\ \A i \in 1..Len(item.text) : item.text[i] # "-"
                                               /\ (dX = NoColumnX \/ cX = NoColumnX)
                                               /\ LclIsDebitSection(section)

\* the last row
LastTransaction(txs) == txs[Len(txs)]

LclAggregateRow(tx) == \E i \in 0..Len(tx.label) : OccursAtIgnoringCase(tx.label, S_RELEVE_CB, i)

\* the rows of txs that are no aggregate of card payments, in order
RECURSIVE LclRemaining(_)
LclRemaining(txs) == IF txs = <<>> THEN <<>> ELSE IF LclAggregateRow(Head(txs)) THEN LclRemaining(Tail(txs)) ELSE <<Head(txs)>> \o LclRemaining(Tail(txs))

\* C27: every row the card detail pass emits has an amount <= 0 and the section
\* PAIEMENTS PAR CARTE; when the pass emitted a row, the list returned holds no row of
\* the main pass whose label matches RELEVE CB and is the remaining rows of the main pass
\* in order, then the card rows in order; when it emitted none, the rows of the main
\* pass are returned as they are
C27_CardDetailPass == /\ \A i \in 1..Len(cardTransactions) : cardTransactions[i].amount.m <= 0 /\ cardTransactions[i].meta.section = S_PAIEMENTS_PAR_CARTE
                      /\ (ppc = "done" /\ cardTransactions # <<>>) => (output = LclRemaining(transactions) \o cardTransactions /\ \A i \in 1..(Len(output) - Len(cardTransactions)) : ~LclAggregateRow(output[i]))
                      /\ (ppc = "done" /\ cardTransactions = <<>>) => output = transactions

\* the pass emitted a row and the main pass an aggregate row, which is not returned
C27_Witness == /\ ppc = "done"
               /\ cardTransactions # <<>>
               /\ \E i \in 1..Len(transactions) : LclAggregateRow(transactions[i])
               /\ Len(output) < Len(transactions) + Len(cardTransactions)

(***************************************************************************)
(* The card section of a CIC statement, which cicParser.parse passes over. *)
(***************************************************************************)
\* the line matches RELEVE DE VOTRE CARTE
CicOpensRegion(line) == \E i \in 0..Len(line.text) : OccursAt(ToUpperCase(line.text), S_RELEVE_DE_VOTRE_CARTE, i)

\* the line is a header line: DATE, DEBIT and CREDIT
CicClosesRegion(line) == /\ ~CicOpensRegion(line)
                         /\ \A word \in {S_DATE_UPPER, S_DEBIT_UPPER, S_CREDIT_UPPER} : \E i \in 0..Len(line.text) : OccursAt(ToUpperCase(line.text), word, i)

\* after the first n lines the region is open: one of them opened it and no line after
\* that one closed it
CicRegionOpen(pdfLines, n) == \E j \in 1..n : /\ CicOpensRegion(pdfLines[j])
                                              /\ \A k \in (j + 1)..n : ~CicClosesRegion(pdfLines[k])

\* the loop takes the line after the first n
CicTakesLine == ppc = "loop" /\ lineIdx' = lineIdx + 1

\* the row flush emits for the operation: its dates and amount, its label parts joined
CicRowAsHeld(tx, op) == /\ tx.dateOperation = op.dateOperation
                        /\ tx.dateValeur = op.dateValeur
                        /\ tx.amount = op.amount
                        /\ tx.label = normalizeSpaces(Join(op.labelParts, <<" ">>))

\* the line that opens the region: the row that is open, if any, is emitted as it is
CicRegionStart == (CicTakesLine /\ CicOpensRegion(lines[lineIdx + 1])) => /\ currentOperation' = NoOperation
                                                                          /\ currentOperation.isNull => transactions' = transactions
                                                                          /\ ~currentOperation.isNull => (Len(transactions') = Len(transactions) + 1 /\ SubSeq(transactions', 1, Len(transactions)) = transactions /\ CicRowAsHeld(LastTransaction(transactions'), currentOperation))

\* a line inside the region makes no row and is added to no label
CicRegionInside == (CicTakesLine /\ CicRegionOpen(lines, lineIdx)) => /\ currentOperation = NoOperation
                                                                      /\ (~CicOpensRegion(lines[lineIdx + 1]) /\ ~CicClosesRegion(lines[lineIdx + 1])) => (transactions' = transactions /\ currentOperation' = NoOperation /\ debitX' = debitX /\ creditX' = creditX)

\* the first line after the header that closes the region is processed as a row line
CicRegionEnd == (CicTakesLine /\ ~CicRegionOpen(lines, lineIdx) /\ CicKindOf(lines[lineIdx + 1], ToUpperCase(lines[lineIdx + 1].text), FALSE) = "start") => ~currentOperation'.isNull

\* C29: a line matching RELEVE DE VOTRE CARTE opens a region that only a later header
\* line (DATE, DEBIT and CREDIT) closes; a line inside the region makes no transaction
\* and is added to no label, the row open when the region starts is emitted unchanged,
\* and rows are processed again from the first line after the closing header
C29_CardSectionSkip == [][/\ CicTakesLine => (inCardSection' = CicRegionOpen(lines, lineIdx'))
                          /\ CicRegionStart
                          /\ CicRegionInside
                          /\ CicRegionEnd]_vars

\* the region was opened by the first line, closed by the second, and the third started
\* a row
C29_Witness == /\ ppc = "loop"
               /\ lineIdx = 3
               /\ CicOpensRegion(lines[1])
               /\ CicClosesRegion(lines[2])
               /\ ~inCardSection
               /\ ~currentOperation.isNull

(***************************************************************************)
(* The page (page.tsx): the Home component, its handlers and the responses *)
(* of /api/detect and /api/convert, which arrive in any order.             *)
(***************************************************************************)
\* the values of BANK_OPTIONS
BANK_OPTIONS == {"bnp", "banque-populaire", "qonto", "lcl", "cic", "societe-generale"}

\* the files the user selects: a CIC statement, an LCL statement and a PDF of no bank
UiFiles == {1, 2, 3}

\* payload.bankId of /api/detect for each file, "" for null
DetectionOf == <<"cic", "lcl", "">>

\* the requests handleFileChange sends before the page is left
MaxRequests == 3

\* the requests of handleFileChange that wait for their response
UiPending == {r \in inflight : r.pending}

\* const selectedFile = event.target.files?.[0]: a file is selected; the state is
\* reset, detecting is set and the file is sent to /api/detect
handleFileChange(f) == /\ ~ui.loading
                       /\ Cardinality(inflight) < MaxRequests
                       /\ ui' = [ui EXCEPT !.file = f, !.detectedBank = "", !.detectError = "", !.manualOverride = FALSE, !.detecting = TRUE]
                       /\ inflight' = inflight \cup {[id |-> Cardinality(inflight) + 1, file |-> f, pending |-> TRUE]}

UiSelectFile == /\ \E f \in UiFiles : handleFileChange(f)
                /\ UNCHANGED <<routeVars, transactions, ppc, pdfText, now, lines, lineIdx, thrown, sgVars, bnpVars, libVars, bookVars, callVars, cicVars, lclVars>>

\* the selection is emptied: if (!selectedFile) return
UiClearFile == /\ ~ui.loading
               /\ ui.file # 0
               /\ ui' = [ui EXCEPT !.file = 0, !.detectedBank = "", !.detectError = "", !.manualOverride = FALSE]
               /\ UNCHANGED <<inflight, routeVars, transactions, ppc, pdfText, now, lines, lineIdx, thrown, sgVars, bnpVars, libVars, bookVars, callVars, cicVars, lclVars>>

\* setDetectedBank(detected); if (detected) setBank(detected)
UiDetected(state, detected) == [state EXCEPT !.detectedBank = detected, !.bank = IF detected # "" THEN detected ELSE @, !.detecting = FALSE]

\* the response of a request arrives and is ok: the rest of handleFileChange runs
UiDetectResponse == /\ \E r \in UiPending : /\ ui' = UiDetected(ui, DetectionOf[r.file])
                                            /\ inflight' = (inflight \ {r}) \cup {[r EXCEPT !.pending = FALSE]}
                    /\ UNCHANGED <<routeVars, transactions, ppc, pdfText, now, lines, lineIdx, thrown, sgVars, bnpVars, libVars, bookVars, callVars, cicVars, lclVars>>

\* the response is not ok, or fetch rejects: catch, then finally
UiDetectFails == /\ \E r \in UiPending : /\ ui' = [ui EXCEPT !.detectError = "Detection impossible.", !.detecting = FALSE]
                                         /\ inflight' = (inflight \ {r}) \cup {[r EXCEPT !.pending = FALSE]}
                 /\ UNCHANGED <<routeVars, transactions, ppc, pdfText, now, lines, lineIdx, thrown, sgVars, bnpVars, libVars, bookVars, callVars, cicVars, lclVars>>

\* the select and the button are rendered when detectedBank is set, and enabled
\* when loading is not
UiFormShown == ui.detectedBank # "" /\ ~ui.loading

\* handleBankChange: setBank(event.target.value); setManualOverride(true)
handleBankChange(value) == /\ UiFormShown
                           /\ ui' = [ui EXCEPT !.bank = value, !.manualOverride = TRUE]

UiBankChange == /\ \E value \in BANK_OPTIONS \ {ui.bank} : handleBankChange(value)
                /\ UNCHANGED <<inflight, routeVars, transactions, ppc, pdfText, now, lines, lineIdx, thrown, sgVars, bnpVars, libVars, bookVars, callVars, cicVars, lclVars>>

\* handleSubmit without a file: setError("Merci de selectionner un PDF.")
UiSubmitNoFile == /\ UiFormShown
                  /\ ui.file = 0
                  /\ ui' = [ui EXCEPT !.error = "Merci de selectionner un PDF.", !.success = ""]
                  /\ UNCHANGED <<inflight, routeVars, transactions, ppc, pdfText, now, lines, lineIdx, thrown, sgVars, bnpVars, libVars, bookVars, callVars, cicVars, lclVars>>

\* handleSubmit with a file: setLoading(true) and the file is sent to /api/convert
UiSubmit == /\ UiFormShown
            /\ ui.file # 0
            /\ ui' = [ui EXCEPT !.error = "", !.success = "", !.loading = TRUE]
            /\ UNCHANGED <<inflight, routeVars, transactions, ppc, pdfText, now, lines, lineIdx, thrown, sgVars, bnpVars, libVars, bookVars, callVars, cicVars, lclVars>>

\* the workbook arrives: it is downloaded
UiConverted == /\ ui.loading
               /\ ui' = [ui EXCEPT !.success = "Conversion terminee. Le fichier est telecharge.", !.loading = FALSE]
               /\ UNCHANGED <<inflight, routeVars, transactions, ppc, pdfText, now, lines, lineIdx, thrown, sgVars, bnpVars, libVars, bookVars, callVars, cicVars, lclVars>>

\* the conversion fails
UiConvertFails == /\ ui.loading
                  /\ ui' = [ui EXCEPT !.error = "Conversion impossible.", !.loading = FALSE]
                  /\ UNCHANGED <<inflight, routeVars, transactions, ppc, pdfText, now, lines, lineIdx, thrown, sgVars, bnpVars, libVars, bookVars, callVars, cicVars, lclVars>>

InitUi == /\ RouteIdle
          /\ SgIdle
          /\ AuxIdle
          /\ TextIdle
          /\ transactions = <<>>

NextUi == UiSelectFile \/ UiClearFile \/ UiDetectResponse \/ UiDetectFails \/ UiBankChange \/ UiSubmitNoFile \/ UiSubmit \/ UiConverted \/ UiConvertFails

SpecUi == InitUi /\ [][NextUi]_vars

\* a response of /api/detect arrives
UiResponseArrives == \E r \in UiPending : inflight' = (inflight \ {r}) \cup {[r EXCEPT !.pending = FALSE]}

\* C30: when no detection request is in flight, the detectedBank on display, and the
\* bank it preselects, is the detection of the file that is selected, and a response
\* that arrives after the user chose a bank for the file leaves that bank as chosen
C30_NoStaleDetection == [][/\ (UiPending' = {} /\ ui'.file # 0 /\ ui'.detectedBank # "") => (ui'.detectedBank = DetectionOf[ui'.file] /\ (~ui'.manualOverride => ui'.bank = ui'.detectedBank))
                           /\ (UiResponseArrives /\ ui.manualOverride) => ui'.bank = ui.bank]_vars

====
